---- MODULE Spec2Model ----
(***************************************************************************)
(* A model of the download orchestration engine of telegram_media_         *)
(* downloader: the worker pool (media_downloader.py), the run state and    *)
(* progress callback (module/download_stat.py), the ZIP packaging job and  *)
(* its HTTP status endpoints (module/web/message_downloader/downloads.py   *)
(* and module/web_zip_api.py), and the custom-download manager             *)
(* (module/custom_download.py).                                            *)
(***************************************************************************)
EXTENDS Integers, Sequences, FiniteSets, TLC

\* ------------------------------------------------------------------ bounds

MaxManagers == 2
MaxMessageIds == 2
NumWorkers == 2
NumRequests == 2
MaxChunks == 1
MaxRequested == 2
MaxNodes == 3
MaxFloodWait == 400
MaxSize == 2
NumThreads == 2
MaxKeys == 2
MaxValue == 2
MaxRowId == 3
MaxRuns == 2
MaxTaskNodes == 2
MaxDropped == 2
MaxClock == 6
MaxCreated == 4
MaxUsers == 2

\* download_stat.update_download_status: the longest a callback stays paused
pause_timeout == 300
max_wait_time == 300
check_interval == 2
estimated_size == 50

\* media_downloader.RETRY_TIME_OUT
RETRY_TIME_OUT == 3

\* save_config_to_database: the rounds of its retry loop
max_retries == 3

\* test_concurrent_access: the statistics a worker thread reads before it writes
statistics_reads == 10

Managers == 1..MaxManagers
MsgIds == 1..MaxMessageIds
Workers == 1..NumWorkers
Requests == 1..NumRequests
Threads == 1..NumThreads

\* message_ids lists a ZIP request may carry: the first n messages of the chat,
\* so that two requests overlap on message 1
IdLists == { [i \in 1..n |-> i] : n \in 1..MaxMessageIds }

\* ------------------------------------------------------------------ state

VARIABLES
    download_state,        \* download_stat._download_state
    app_is_running,        \* app.is_running
    download_progress,     \* progress_system.download_progress (counters, active)
    session_active,        \* progress_system.active_download_session['active']
    managers,              \* every ZipDownloadManager object created so far
    active_zip_managers,   \* downloads.active_zip_managers (its keys)
    legacy_zip_managers,   \* web_zip_api.active_zip_managers (its keys)
    nodes,                 \* every TaskNode created so far
    queue,                 \* the worker pool's asyncio.Queue of (message, node)
    worker,                \* each worker coroutine's position
    request,               \* each HTTP thread inside check_zip_download_status
    response,              \* the last answer check_zip_download_status returned
    streamed,              \* number of send_file answers per manager
    target_ids,            \* app.config['custom_downloads']['target_ids'] of the chat
    db_target_ids,         \* target_message_ids of the chat's custom_downloads record
    history_file,          \* custom_download_history.yaml
    files,                 \* per message, its file in the chat's save directory
    custom,                \* the CustomDownloadManager of the run and the run's position
    called,                \* messages client.download_media was called for in the run
    since_cancel,          \* seconds the run state has been Cancelled, 0 when it is not
    dm,                    \* one invocation of download_media, step by step
    rows,                  \* the rows of one repository's table
    thread,                \* each thread inside a call of the repository
    chat,                  \* last_read_message_id of one chat, in memory and in the chats table
    saver,                 \* each thread inside save_config_to_database
    job,                   \* each worker thread of the concurrent-access test
    hist,                  \* a CustomDownloadManager's history, its file and the chat's files
    task_nodes,            \* TaskNode objects: download_status per message id
    task_queue,            \* media_downloader.queue, fed by every submission path
    taken,                 \* the item each worker took from task_queue
    scan,                  \* download_chat_task of one chat, step by step
    cb,                    \* one transfer's progress callback, its node and its progress entry
    task_node,             \* the TaskNode of the message download_media works on
    finalizer,             \* CustomDownloadManager.update_download_status and its TaskNode
    zip_sub,               \* one ZipDownloadManager's submission task and the cleanup request
    fp,                    \* one message's progress entry, its transfer and the finalizer
    task_ids,              \* DownloadBot.task_id and the TaskNode objects created
    sf,                    \* the session files on disk and the saves under way
    auth,                  \* the authentication manager: blobs in memory and on disk
    zw,                    \* the items of a ZIP job and the callbacks made for them
    web                    \* add_tasks requests, the progress flag and the scheduled downloads

zipVars == <<managers, active_zip_managers, legacy_zip_managers>>
poolVars == <<nodes, queue, worker>>
httpVars == <<request, response, streamed>>
stateVars == <<download_state, app_is_running, download_progress, session_active>>

customVars == <<target_ids, db_target_ids, history_file, files, custom, called>>

coreVars == <<stateVars, zipVars, poolVars, httpVars, customVars, since_cancel>>

dbVars == <<rows, thread>>

appVars == <<chat, saver>>

queueVars == <<task_nodes, task_queue, taken, scan>>

unit1Vars == <<dm, dbVars, appVars, job>>

unit2Vars == <<hist, queueVars, cb, task_node, finalizer, zip_sub, fp, task_ids, sf, auth, zw, web>>

unitVars == <<unit1Vars, unit2Vars>>

\* what the history of a CustomDownloadManager does not touch
notHist == <<coreVars, unit1Vars, queueVars, cb, task_node, finalizer, zip_sub, fp, task_ids, sf, auth, zw, web>>

\* what the submission paths and the workers' queue do not touch
notQueue == <<coreVars, unit1Vars, hist, cb, task_node, finalizer, zip_sub, fp, task_ids, sf, auth, zw, web>>

\* what a progress callback does not touch: everything but the run state,
\* which it reads
notCallback == <<coreVars, unit1Vars, hist, queueVars, task_node, finalizer, zip_sub, fp, task_ids, sf, auth, zw, web>>

\* what a call of the repository leaves alone
notDb == <<coreVars, unit2Vars, dm, appVars, job>>

vars == <<stateVars, zipVars, poolVars, httpVars, customVars, since_cancel, unitVars>>

NoItem == [message |-> 0, node |-> 0]

IdleWorker ==
    [pc |-> "get", item |-> NoItem, down_byte |-> 0, aborted |-> FALSE, errors |-> 0,
     retry |-> 0, sleep |-> 0]

NoResponse == [code |-> 0, body |-> "none", streamed_before |-> FALSE]
IdleRequest == [pc |-> "idle", manager_id |-> 0, download |-> FALSE, api |-> "none"]

\* no custom download has run since the process started
NoRun ==
    [phase |-> "none", selected |-> {}, downloaded_ids |-> {}, failed_ids |-> {},
     not_found_ids |-> {}, download_nodes |-> {}, at_start |-> {},
     files_at_start |-> [x \in MsgIds |-> "none"]]

\* no file at a path
NoFile == [exists |-> FALSE, size |-> 0]

\* download_media is not running
NoCall ==
    [pc |-> "idle", is_zip |-> FALSE, media_size |-> 0, original |-> NoFile, final |-> NoFile,
     checked |-> FALSE, redirect |-> FALSE, retry |-> 0, calls |-> 0, ends |-> <<>>,
     temp |-> FALSE, got |-> 0, moved |-> FALSE, result |-> "none"]

\* a dictionary without keys
NoDict == [f \in {} |-> 0]

\* a thread outside the repository
NoThread ==
    [pc |-> "idle", op |-> "none", conditions |-> NoDict, data |-> NoDict, existing |-> 0,
     ends |-> "none", result |-> 0]

\* a thread outside save_config_to_database
NoSave ==
    [pc |-> "idle", data |-> 0, retry_count |-> 0, attempts |-> 0, waits |-> <<>>,
     locked |-> FALSE, surfaced |-> FALSE]

\* a worker thread of the test that has not started
NoJob == [reads |-> 0, completed |-> FALSE, failed |-> FALSE, set_ok |-> FALSE]

\* a transfer before its first progress callback: the node is not stopped and
\* _download_result has no entry of the message
\* a TaskNode nobody has stopped, and the items its worker has dropped
NoTaskNode == [is_stop_transmission |-> FALSE, dropped |-> 0]

\* no custom download has been handed a TaskNode
NoFinalizer ==
    [phase |-> "idle", download_status |-> [x \in MsgIds |-> "none"], waited_time |-> 0,
     is_running |-> FALSE, processed |-> {}, marked |-> {}]

\* a ZipDownloadManager just registered: no background task yet, no cleanup
NoSubmission ==
    [pc |-> "idle", message_ids |-> <<>>, pos |-> 1, is_cancelled |-> FALSE,
     must_cancel |-> FALSE, cleanup |-> "none", put |-> <<>>, failed_downloads |-> <<>>]

\* no entry of download_stat._download_result for the message
NoEntry ==
    [exists |-> FALSE, down_byte |-> 0, total_size |-> 0, start_time |-> 0, end_time |-> 0,
     download_speed |-> 0, each_second_total_download |-> 0, by_finalizer |-> FALSE]

\* a message of a custom download on the queue, its transfer not yet started,
\* the finalizer not yet waiting; sizes are counted in MiB, times in seconds
NoProgress ==
    [transfer |-> "queued", total_size |-> 0, reported |-> 0, task_start_time |-> 0,
     now |-> 0, fin |-> "idle", next_round |-> 0, processed |-> FALSE, entry |-> NoEntry]

\* DownloadBot.__init__: the counter of task ids, and no TaskNode created
NoTaskIds == [task_id |-> 0, created |-> <<>>]

\* a file that holds the complete JSON of no sessions; no file
EmptySaved == [exists |-> TRUE, sessions |-> {}, complete |-> TRUE]
Absent == [exists |-> FALSE, sessions |-> {}, complete |-> FALSE]

\* both session stores after a first start: each file written once, no save
\* under way
NoSaves ==
    [sessions_file |-> EmptySaved, storage_file |-> EmptySaved, temp_file |-> Absent,
     user_sessions |-> {}, sessions |-> {},
     save |-> [t \in Threads |-> [pc |-> "idle", store |-> "none", data |-> {}, fd |-> "none"]],
     crashed |-> FALSE]

\* the authentication manager after its first construction: no stored blob
NoAuth ==
    [user_sessions |-> {}, stored |-> {}, active_clients |-> {}, unregistered |-> {},
     met_unregistered |-> {}, returned |-> [user_id |-> 0, client |-> FALSE]]

\* a ZIP job before any of its messages is submitted
NoZipItems ==
    [queue |-> <<>>, put |-> {}, cancelled |-> FALSE, is_stop_transmission |-> {},
     on_file_downloaded |-> [m \in MsgIds |-> 0], on_file_failed |-> [m \in MsgIds |-> 0],
     handled |-> {}, queued_at_cancel |-> {}, download_task |-> {}]

\* no add_tasks request handled yet
NoRequest ==
    [ids |-> {}, force_restart |-> FALSE, was_active |-> FALSE,
     target_before |-> {}, state_before |-> "Idle",
     target_after |-> {}, state_after |-> "Idle",
     code |-> 0, download_triggered |-> FALSE]

\* the web interface after the start: no session, no target, no task
NoWeb ==
    [active |-> FALSE, run_state |-> "Idle", target_ids |-> {}, request |-> NoRequest,
     tasks |-> <<>>, submitted |-> {}, failed_ids |-> {}]

NoCallback ==
    [pc |-> "idle", elapsed |-> 0, down_byte |-> 0, is_stop_transmission |-> FALSE,
     entry |-> 0, total_download_byte |-> 0, ended |-> "none", stop_at_entry |-> FALSE]

\* download_chat_task is not running
NoScan == [phase |-> "none", node |-> 0, ids_to_retry |-> {}, success |-> {}, pos |-> 0]

\* a manager with an empty history, no history file content and no file of
\* any message
NoHistory ==
    [downloaded_ids |-> {}, saved |-> {}, place |-> [x \in MsgIds |-> "none"],
     asked |-> 0, result |-> FALSE]

\* what the process has in memory when main() has built the application
Started ==
    /\ download_state = "Idle"
    /\ app_is_running = TRUE
    /\ download_progress = [active |-> FALSE, completed_count |-> 0, total_count |-> 0]
    /\ session_active = FALSE
    /\ managers = <<>>
    /\ active_zip_managers = {}
    /\ legacy_zip_managers = {}
    /\ nodes = <<>>
    /\ queue = <<>>
    /\ worker = [w \in Workers |-> IdleWorker]
    /\ request = [t \in Requests |-> IdleRequest]
    /\ response = NoResponse
    /\ streamed = [m \in Managers |-> 0]
    /\ custom = NoRun
    /\ called = {}
    /\ since_cancel = 0
    /\ dm = NoCall
    /\ rows = {}
    /\ thread = [t \in Threads |-> NoThread]
    /\ chat = [memory |-> 0, stored |-> 0, run |-> 1]
    /\ saver = [t \in Threads |-> NoSave]
    /\ job = [t \in Threads |-> NoJob]
    /\ hist = NoHistory
    /\ task_nodes = <<>>
    /\ task_queue = <<>>
    /\ taken = [w \in Workers |-> NoItem]
    /\ scan = NoScan
    /\ cb = NoCallback
    /\ task_node = NoTaskNode
    /\ finalizer = NoFinalizer
    /\ zip_sub = NoSubmission
    /\ fp = NoProgress
    /\ task_ids = NoTaskIds
    /\ sf = NoSaves
    /\ auth = NoAuth
    /\ zw = NoZipItems
    /\ web = NoWeb

\* a first start: no targets, no history, no files
Init ==
    /\ Started
    /\ target_ids = {}
    /\ db_target_ids = {}
    /\ history_file = [downloaded_ids |-> {}, failed_ids |-> {}]
    /\ files = [x \in MsgIds |-> "none"]

\* ------------------------------------------------------ progress system

\* progress_system.update_download_progress: the counters and the active flag
UpdateDownloadProgress(completed, total) ==
    [active |-> completed < total, completed_count |-> completed, total_count |-> total]

\* progress_system._update_download_session_status: the session's active flag
SessionActiveAfter(completed, total, was) ==
    IF completed < total /\ total > 0 THEN TRUE
    ELSE IF completed >= total /\ total > 0 THEN FALSE
    ELSE was

\* progress_system._update_download_session_status: the run state it leaves
DownloadStateAfter(completed, total, state) ==
    IF completed >= total /\ total > 0 /\ state # "Cancelled" THEN "Completed"
    ELSE state

\* progress_system.initialize_download_session
InitializeDownloadSession(total) ==
    [active |-> TRUE, completed_count |-> 0, total_count |-> total]

\* ------------------------------------------------------ ZIP manager object

\* ZipDownloadManager.__init__ (both modules) plus the position of its submission
\* coroutine; api tells which module's class and registry the object belongs to
NewManager(api, ids) ==
    [ api |-> api,
      message_ids |-> ids,
      downloaded_files |-> <<>>,
      failed_downloads |-> <<>>,
      is_cancelled |-> FALSE,
      zip_ready |-> FALSE,
      phase |-> "new",
      pos |-> 1,
      messages_to_download |-> <<>>,
      temp_dir |-> TRUE,
      zip_file |-> FALSE,
      create_calls |-> 0,
      create_pending |-> 0 ]

\* the number of messages the ZIP requests so far asked for
RECURSIVE Requested(_)
Requested(mgs) ==
    IF mgs = <<>> THEN 0 ELSE Len(Head(mgs).message_ids) + Requested(Tail(mgs))

\* the completion test of on_file_downloaded, evaluated after the append
AllDownloaded(mg) ==
    Len(mg.downloaded_files) >= Len(mg.message_ids) - Len(mg.failed_downloads)

\* the completion test of on_file_failed, evaluated after the append
AllProcessed(mg) ==
    Len(mg.downloaded_files) + Len(mg.failed_downloads) >= Len(mg.message_ids)

\* asyncio.create_task(self.create_zip_file())
ScheduleCreateZip(mg) ==
    [mg EXCEPT !.create_calls = @ + 1, !.create_pending = @ + 1]

\* ZipDownloadManager.on_file_downloaded: the manager's fields
OnFileDownloaded(mg, message_id) ==
    LET appended == [mg EXCEPT !.downloaded_files = Append(@, message_id)]
    IN  IF AllDownloaded(appended) THEN ScheduleCreateZip(appended) ELSE appended

\* ZipDownloadManager.on_file_failed
OnFileFailed(mg, message_id) ==
    LET appended == [mg EXCEPT !.failed_downloads = Append(@, message_id)]
    IN  IF AllProcessed(appended) THEN ScheduleCreateZip(appended) ELSE appended

\* the failure entries start_downloads_via_worker_pool appends itself
\* (no media, or get_messages raised): no completion test follows
RecordSubmissionFailure(mg, message_id) ==
    [mg EXCEPT !.failed_downloads = Append(@, message_id)]

\* TaskNode(chat_id=...) as start_downloads_via_worker_pool sets it up
ZipNode(m, message_id) ==
    [ zip_download_manager |-> m,
      zip_message_id |-> message_id,
      is_custom_download |-> TRUE,
      is_stop_transmission |-> FALSE,
      download_status |-> "Downloading" ]

\* ------------------------------------------------------ ZIP job submission

\* downloads.download_messages_as_zip: a manager is built, registered under a new
\* manager_id and its submission coroutine is scheduled; when the 5 s wait for
\* the preparation times out (ok = FALSE) the entry and the temp dir are removed
\* again while the scheduled coroutine stays scheduled
DownloadMessagesAsZip(ids) ==
    /\ Len(managers) < MaxManagers
    /\ Requested(managers) + Len(ids) <= MaxRequested
    /\ LET m == Len(managers) + 1
           mg == [NewManager("blueprint", ids) EXCEPT !.phase = "scheduled"]
       IN  /\ managers' = Append(managers, mg)
           /\ active_zip_managers' = active_zip_managers \cup {m}
    /\ download_progress' = InitializeDownloadSession(Len(ids))
    /\ session_active' = TRUE
    /\ UNCHANGED <<download_state, app_is_running, legacy_zip_managers, poolVars, httpVars>>
    /\ UNCHANGED <<customVars, since_cancel, unitVars>>

\* start_downloads_via_worker_pool, up to its loop: the one is_cancelled test
StartDownloadsViaWorkerPool(m) ==
    /\ m \in DOMAIN managers
    /\ managers[m].api = "blueprint"
    /\ managers[m].phase = "scheduled"
    /\ managers' = [managers EXCEPT ![m].phase =
                        IF managers[m].is_cancelled THEN "done" ELSE "submit"]
    /\ UNCHANGED <<stateVars, active_zip_managers, legacy_zip_managers, poolVars, httpVars>>
    /\ UNCHANGED <<customVars, since_cancel, unitVars>>

\* the phase of the submission coroutine after message number pos was handled
PhaseAfter(mg) == IF mg.pos >= Len(mg.message_ids) THEN "done" ELSE "submit"

\* one iteration of the loop of start_downloads_via_worker_pool: get_messages
\* answers with a message that has media, with one that has none, or raises
SubmitMessage(m, fetched) ==
    /\ m \in DOMAIN managers
    /\ managers[m].api = "blueprint"
    /\ managers[m].phase = "submit"
    /\ LET mg == managers[m]
           message_id == mg.message_ids[mg.pos]
           next == [mg EXCEPT !.pos = @ + 1, !.phase = PhaseAfter(mg)]
       IN  IF fetched = "media"
           THEN /\ nodes' = Append(nodes, ZipNode(m, message_id))
                /\ queue' = Append(queue, [message |-> message_id, node |-> Len(nodes) + 1])
                /\ managers' = [managers EXCEPT ![m] = next]
           ELSE /\ managers' = [managers EXCEPT ![m] = RecordSubmissionFailure(next, message_id)]
                /\ UNCHANGED <<nodes, queue>>
    /\ UNCHANGED <<stateVars, active_zip_managers, legacy_zip_managers, worker, httpVars>>
    /\ UNCHANGED <<customVars, since_cancel, unitVars>>

\* web_zip_api.download_messages_as_zip: the manager is built and registered
LegacyDownloadMessagesAsZip(ids) ==
    /\ Len(managers) < MaxManagers
    /\ Requested(managers) + Len(ids) <= MaxRequested
    /\ managers' = Append(managers, [NewManager("legacy", ids) EXCEPT !.phase = "fetch"])
    /\ legacy_zip_managers' = legacy_zip_managers \cup {Len(managers) + 1}
    /\ UNCHANGED <<stateVars, active_zip_managers, poolVars, httpVars>>
    /\ UNCHANGED <<customVars, since_cancel, unitVars>>

\* web_zip_api start_downloads_via_worker_pool, first loop: fetch every message
LegacyFetchMessage(m, fetched) ==
    /\ m \in DOMAIN managers
    /\ managers[m].api = "legacy"
    /\ managers[m].phase = "fetch"
    /\ LET mg == managers[m]
           message_id == mg.message_ids[mg.pos]
           last == mg.pos >= Len(mg.message_ids)
           next == [mg EXCEPT !.pos = IF last THEN 1 ELSE @ + 1,
                              !.phase = IF last THEN "put" ELSE "fetch"]
       IN  managers' = [managers EXCEPT ![m] =
               IF fetched = "media"
               THEN [next EXCEPT !.messages_to_download = Append(@, message_id)]
               ELSE RecordSubmissionFailure(next, message_id)]
    /\ UNCHANGED <<stateVars, active_zip_managers, legacy_zip_managers, poolVars, httpVars>>
    /\ UNCHANGED <<customVars, since_cancel, unitVars>>

\* web_zip_api start_downloads_via_worker_pool, second loop: queue the fetched
\* messages; after the last one the request handler activates the progress view
LegacyPutMessage(m) ==
    /\ m \in DOMAIN managers
    /\ managers[m].api = "legacy"
    /\ managers[m].phase = "put"
    /\ LET mg == managers[m]
           todo == mg.messages_to_download
       IN  IF mg.pos > Len(todo)
           THEN /\ managers' = [managers EXCEPT ![m].phase = "done"]
                /\ download_progress' = [active |-> TRUE, completed_count |-> 0,
                                         total_count |-> Len(mg.message_ids)]
                /\ UNCHANGED <<nodes, queue>>
           ELSE /\ nodes' = Append(nodes, [ZipNode(m, todo[mg.pos]) EXCEPT
                                               !.is_custom_download = FALSE])
                /\ queue' = Append(queue, [message |-> todo[mg.pos], node |-> Len(nodes) + 1])
                /\ managers' = [managers EXCEPT ![m].pos = @ + 1]
                /\ UNCHANGED download_progress
    /\ UNCHANGED <<download_state, app_is_running, session_active, active_zip_managers,
                   legacy_zip_managers, worker, httpVars>>
    /\ UNCHANGED <<customVars, since_cancel, unitVars>>

\* ------------------------------------------------------------ worker pool

\* what download_task can end with for one queue item: a status it returns,
\* SuccessDownload whose file os.path.getsize cannot stat afterwards, or an
\* exception raised by the download or by a post-download hook
Outcomes ==
    {"SuccessDownload", "SuccessStatError", "SkipDownload", "FailedDownload", "Exception"}

\* node.download_status[message.id] as download_task leaves it (line 367 is not
\* reached when download_task raises)
StatusAfter(outcome, before) ==
    CASE outcome = "SuccessDownload" -> "SuccessDownload"
      [] outcome = "SuccessStatError" -> "SuccessDownload"
      [] outcome = "SkipDownload" -> "SkipDownload"
      [] outcome = "SkipNoFile" -> "SkipDownload"
      [] outcome = "FailedDownload" -> "FailedDownload"
      [] OTHER -> before

\* a worker whose loop body lets an exception of download_task escape
AfterItemUncaught(running, outcome) ==
    IF outcome = "Exception" THEN "crashed"
    ELSE IF running THEN "get" ELSE "stopped"

\* the worker's `while app.is_running` test, reached after every queue item
\* whatever the item ended with: every exception is caught inside the loop body
AfterItem(running, outcome) == IF running THEN "get" ELSE "stopped"

\* worker, lines 699-710: take an item; drop it when the run is cancelled
\* (marking the node) or when the node is already stopped
WorkerTake(w) ==
    /\ worker[w].pc = "get"
    /\ queue # <<>>
    /\ LET item == Head(queue)
       IN  /\ queue' = Tail(queue)
           /\ IF download_state = "Cancelled"
              THEN /\ nodes' = [nodes EXCEPT ![item.node].is_stop_transmission = TRUE]
                   /\ worker' = [worker EXCEPT ![w].pc = AfterItem(app_is_running, "Dropped")]
              ELSE IF nodes[item.node].is_stop_transmission
              THEN /\ worker' = [worker EXCEPT ![w].pc = AfterItem(app_is_running, "Dropped")]
                   /\ UNCHANGED nodes
              ELSE /\ worker' = [worker EXCEPT ![w] =
                          [IdleWorker EXCEPT !.pc = "download", !.item = item,
                                             !.errors = worker[w].errors]]
                   /\ UNCHANGED nodes
    /\ UNCHANGED <<stateVars, zipVars, httpVars>>
    /\ UNCHANGED <<customVars, since_cancel, unitVars>>

\* download_media reaches client.download_media for the item: always for a ZIP
\* node (an existing file only redirects the target), and for any other node
\* unless the existing-file test returns SkipDownload
TransferStarts(item) ==
    nodes[item.node].zip_download_manager # 0 \/ files[item.message] # "full"

\* download_stat.update_download_status, called by the client after a chunk:
\* stop when the node is stopped or the run cancelled, wait while it is paused,
\* else record the chunk. client.stop_transmission() ends the transfer.
UpdateDownloadStatus(w) ==
    /\ worker[w].pc = "download"
    /\ ~worker[w].aborted
    /\ worker[w].down_byte < MaxChunks
    /\ TransferStarts(worker[w].item)
    /\ LET n == worker[w].item.node
       IN  IF nodes[n].is_stop_transmission
           THEN /\ worker' = [worker EXCEPT ![w].aborted = TRUE]
                /\ UNCHANGED nodes
           ELSE IF download_state = "Cancelled"
           THEN /\ nodes' = [nodes EXCEPT ![n].is_stop_transmission = TRUE]
                /\ worker' = [worker EXCEPT ![w].aborted = TRUE]
           ELSE IF download_state = "StopDownload"
           THEN /\ worker' = [worker EXCEPT ![w].pc = "paused", ![w].sleep = 1]
                /\ UNCHANGED nodes
           ELSE /\ worker' = [worker EXCEPT ![w].down_byte = @ + 1]
                /\ UNCHANGED nodes
    /\ UNCHANGED <<stateVars, zipVars, queue, httpVars>>
    /\ UNCHANGED <<customVars, since_cancel, unitVars>>

\* the outcomes the transfer's position allows: an aborted transfer makes
\* download_media return FailedDownload, success needs every chunk, a skip
\* happens before any chunk
Allowed(wk, outcome) ==
    CASE wk.aborted -> outcome \in {"FailedDownload", "Exception"}
      [] outcome \in {"SuccessDownload", "SuccessStatError"} -> wk.down_byte = MaxChunks
      [] outcome = "SkipDownload" -> wk.down_byte = 0
      [] OTHER -> TRUE

\* worker, lines 719-745: which callback of the ZIP manager the outcome leads to
NotifyZipManager(mg, message_id, outcome) ==
    IF outcome = "SuccessDownload"
    THEN OnFileDownloaded(mg, message_id)
    ELSE OnFileFailed(mg, message_id)

\* worker, lines 712-745: download_task returns or raises, the ZIP manager is
\* told, and the loop test follows. The downloads.py manager also updates the
\* progress view in on_file_downloaded.
WorkerFinish(w, outcome) ==
    /\ worker[w].pc = "download"
    /\ nodes[worker[w].item.node].zip_download_manager # 0
    /\ outcome \in Outcomes
    /\ Allowed(worker[w], outcome)
    /\ LET n == worker[w].item.node
           node == nodes[n]
           m == node.zip_download_manager
           mg == managers[m]
           after == NotifyZipManager(mg, node.zip_message_id, outcome)
           total == Len(mg.message_ids)
           done == Len(after.downloaded_files)
           fired == after.create_calls > mg.create_calls
           shown == outcome = "SuccessDownload" /\ mg.api = "blueprint"
       IN  /\ nodes' = [nodes EXCEPT ![n].download_status = StatusAfter(outcome, @)]
           /\ managers' = [managers EXCEPT ![m] = after]
           /\ download_progress' =
                 IF ~shown THEN download_progress
                 ELSE IF fired THEN UpdateDownloadProgress(total, total)
                 ELSE UpdateDownloadProgress(done, total)
           /\ session_active' =
                 IF ~shown THEN session_active
                 ELSE IF fired
                 THEN SessionActiveAfter(total, total, SessionActiveAfter(done, total, session_active))
                 ELSE SessionActiveAfter(done, total, session_active)
           /\ download_state' =
                 IF ~shown THEN download_state
                 ELSE IF fired
                 THEN DownloadStateAfter(total, total, DownloadStateAfter(done, total, download_state))
                 ELSE DownloadStateAfter(done, total, download_state)
    /\ worker' = [worker EXCEPT ![w] =
           [IdleWorker EXCEPT !.pc = AfterItem(app_is_running, outcome),
                              !.errors = worker[w].errors + IF outcome = "Exception" THEN 1 ELSE 0]]
    /\ UNCHANGED <<app_is_running, active_zip_managers, legacy_zip_managers, queue, httpVars>>
    /\ UNCHANGED <<customVars, since_cancel, unitVars>>

\* ZipDownloadManager.create_zip_file, run as its own task: opening the archive
\* fails when the temp dir is gone; else every downloaded file is packed (bad of
\* them fail and are recorded as failures) and zip_ready is set
CreateZipFile(m, bad) ==
    /\ m \in DOMAIN managers
    /\ managers[m].create_pending > 0
    /\ bad \in 0..1
    /\ bad <= Len(managers[m].downloaded_files)
    /\ LET mg == managers[m]
           total == Len(mg.message_ids)
           blueprint == mg.api = "blueprint"
       IN  IF ~mg.temp_dir
           THEN /\ bad = 0
                /\ managers' = [managers EXCEPT ![m].create_pending = @ - 1]
                /\ download_progress' = IF blueprint THEN UpdateDownloadProgress(0, total)
                                        ELSE download_progress
                /\ session_active' = IF blueprint THEN SessionActiveAfter(0, total, session_active)
                                     ELSE session_active
                /\ UNCHANGED download_state
           ELSE /\ managers' = [managers EXCEPT
                       ![m].create_pending = @ - 1,
                       ![m].zip_file = TRUE,
                       ![m].zip_ready = TRUE,
                       ![m].failed_downloads = IF bad = 1 THEN Append(@, 0) ELSE @]
                /\ download_progress' = IF blueprint THEN UpdateDownloadProgress(total, total)
                                        ELSE download_progress
                /\ session_active' = IF blueprint THEN SessionActiveAfter(total, total, session_active)
                                     ELSE session_active
                /\ download_state' = IF blueprint THEN DownloadStateAfter(total, total, download_state)
                                     ELSE download_state
    /\ UNCHANGED <<app_is_running, active_zip_managers, legacy_zip_managers, poolVars, httpVars>>
    /\ UNCHANGED <<customVars, since_cancel, unitVars>>

\* ------------------------------------------------- ZIP status endpoints

\* the registry a module's handler looks the manager up in
Registry(api) == IF api = "blueprint" THEN active_zip_managers ELSE legacy_zip_managers

\* the status a module answers with when the manager id is not registered
GoneCode(api) == IF api = "blueprint" THEN 410 ELSE 404

\* the response of request thread t, with whether the manager's archive had
\* been streamed before this response
Respond(t, code, body) ==
    [code |-> code, body |-> body, streamed_before |-> streamed[request[t].manager_id] > 0]

\* check_zip_download_status, the membership test on entry (both modules)
StatusLookup(t, m, download, api) ==
    /\ request[t].pc = "idle"
    /\ LET req == [pc |-> "found", manager_id |-> m, download |-> download, api |-> api]
       IN  IF m \in Registry(api)
           THEN /\ request' = [request EXCEPT ![t] = req]
                /\ UNCHANGED response
           ELSE /\ request' = [request EXCEPT ![t] = IdleRequest]
                /\ response' = [code |-> GoneCode(api), body |-> "error",
                                streamed_before |-> streamed[m] > 0]
    /\ UNCHANGED <<stateVars, zipVars, poolVars, streamed>>
    /\ UNCHANGED <<customVars, since_cancel, unitVars>>

\* check_zip_download_status from the registry read to the decision: progress,
\* ready, an error, or going on to remove the manager and stream. The registry
\* read raises KeyError (answered 500) when the entry went away meanwhile.
StatusEvaluate(t) ==
    /\ request[t].pc = "found"
    /\ LET m == request[t].manager_id
           api == request[t].api
           mg == managers[m]
           serve == api = "legacy" \/ request[t].download
       IN  IF m \notin Registry(api)
           THEN /\ response' = Respond(t, 500, "error")
                /\ request' = [request EXCEPT ![t] = IdleRequest]
           ELSE IF ~mg.zip_ready
           THEN /\ response' = Respond(t, 200, "progress")
                /\ request' = [request EXCEPT ![t] = IdleRequest]
           ELSE IF ~mg.zip_file
           THEN /\ response' = Respond(t, 500, "error")
                /\ request' = [request EXCEPT ![t] = IdleRequest]
           ELSE IF ~serve
           THEN /\ response' = Respond(t, 200, "ready")
                /\ request' = [request EXCEPT ![t] = IdleRequest]
           ELSE IF api = "blueprint" /\ mg.is_cancelled
           THEN /\ response' = Respond(t, 410, "error")
                /\ request' = [request EXCEPT ![t] = IdleRequest]
           ELSE /\ request' = [request EXCEPT ![t].pc = "remove"]
                /\ UNCHANGED response
    /\ UNCHANGED <<stateVars, zipVars, poolVars, streamed>>
    /\ UNCHANGED <<customVars, since_cancel, unitVars>>

\* check_zip_download_status, `del active_zip_managers[manager_id]` and
\* send_file; the del raises KeyError (answered 500) when another request
\* removed the entry first
StatusRemoveAndSend(t) ==
    /\ request[t].pc = "remove"
    /\ LET m == request[t].manager_id
           api == request[t].api
       IN  IF m \notin Registry(api)
           THEN /\ response' = Respond(t, 500, "error")
                /\ UNCHANGED <<active_zip_managers, legacy_zip_managers, streamed>>
           ELSE /\ response' = Respond(t, 200, "file")
                /\ streamed' = [streamed EXCEPT ![m] = @ + 1]
                /\ active_zip_managers' = IF api = "blueprint" THEN active_zip_managers \ {m}
                                          ELSE active_zip_managers
                /\ legacy_zip_managers' = IF api = "legacy" THEN legacy_zip_managers \ {m}
                                          ELSE legacy_zip_managers
    /\ request' = [request EXCEPT ![t] = IdleRequest]
    /\ UNCHANGED <<stateVars, managers, poolVars>>
    /\ UNCHANGED <<customVars, since_cancel, unitVars>>

\* ---------------------------------------------------- run-state handlers

\* progress_system.reset_download_progress
ResetDownloadProgress == [active |-> FALSE, completed_count |-> 0, total_count |-> 0]

\* how cleanup leaves one registered manager: its submission task is cancelled
\* unless it is done, the flag is set, the archive and the temp dir are deleted
CleanedUp(mg) ==
    [mg EXCEPT !.phase = IF @ \in {"scheduled", "submit"} THEN "cancelled" ELSE @,
               !.is_cancelled = TRUE,
               !.zip_file = FALSE,
               !.temp_dir = FALSE]

\* cleanup_stale_session: progress reset, state Idle, every registered manager
\* cleaned up, the registry cleared, every tgdl_zip_ temp dir removed
CleanupStaleSession ==
    /\ download_progress' = ResetDownloadProgress
    /\ session_active' = FALSE
    /\ download_state' = "Idle"
    /\ managers' = [m \in DOMAIN managers |->
                       IF m \in active_zip_managers THEN CleanedUp(managers[m])
                       ELSE [managers[m] EXCEPT !.temp_dir = FALSE, !.zip_file = FALSE]]
    /\ active_zip_managers' = {}
    /\ since_cancel' = 0
    /\ UNCHANGED unitVars
    /\ UNCHANGED <<app_is_running, legacy_zip_managers, poolVars, httpVars>>
    /\ UNCHANGED customVars

\* web_set_download_state with state=cancel
CancelDownload ==
    /\ download_state' = "Cancelled"
    /\ download_progress' = ResetDownloadProgress
    /\ session_active' = FALSE
    /\ since_cancel' = 0
    /\ UNCHANGED unitVars
    /\ UNCHANGED <<app_is_running, zipVars, poolVars, httpVars>>
    /\ UNCHANGED customVars

\* the main routine's shutdown path: app.is_running = False
Shutdown ==
    /\ app_is_running
    /\ app_is_running' = FALSE
    /\ UNCHANGED <<download_state, download_progress, session_active, zipVars, poolVars,
                   httpVars>>
    /\ UNCHANGED <<customVars, since_cancel, unitVars>>

\* ------------------------------------------------------ custom download

\* CustomDownloadManager.is_downloaded: history says so and a file of the
\* message is found under the chat's directory (of any size)
IsDownloaded(downloaded_ids, x) == x \in downloaded_ids /\ files[x] # "none"

\* the ids is_downloaded removes from downloaded_ids when asked about ids
Demoted(downloaded_ids, ids) == {x \in ids : x \in downloaded_ids /\ files[x] = "none"}

\* TaskNode of _process_message: no ZIP manager attached
PlainNode == [zip_download_manager |-> 0, zip_message_id |-> 0, is_custom_download |-> FALSE,
              is_stop_transmission |-> FALSE, download_status |-> "Downloading"]

\* add_download_tasks: the new ids join target_ids, update_config runs, the run
\* state becomes Downloading, the progress session starts, and
\* run_custom_download_for_selected is scheduled for the new ids
AddDownloadTasks(ids) ==
    /\ ~download_progress.active
    /\ custom.phase \in {"none", "done"}
    /\ ids \ target_ids # {}
    /\ Len(nodes) + Cardinality(ids \ target_ids) <= MaxNodes
    /\ target_ids' = target_ids \cup ids
    /\ download_state' = "Downloading"
    /\ download_progress' = InitializeDownloadSession(Cardinality(ids \ target_ids))
    /\ session_active' = TRUE
    /\ custom' = [NoRun EXCEPT !.phase = "scheduled", !.selected = ids \ target_ids]
    /\ called' = {}
    /\ UNCHANGED <<app_is_running, zipVars, poolVars, httpVars, db_target_ids, history_file, files>>
    /\ since_cancel' = 0
    /\ UNCHANGED unitVars

\* run_custom_download_for_selected up to the chat access: a new manager loads
\* the history file, failed records of the selected ids are cleared and saved,
\* and download_custom_messages asks is_downloaded about every selected id
RunCustomDownloadForSelected ==
    /\ custom.phase = "scheduled"
    /\ LET loaded == history_file
           failed == loaded.failed_ids \ custom.selected
           demoted == Demoted(loaded.downloaded_ids, custom.selected)
           downloaded == loaded.downloaded_ids \ demoted
       IN  /\ custom' = [custom EXCEPT !.phase = "access",
                                       !.downloaded_ids = downloaded,
                                       !.failed_ids = failed,
                                       !.at_start = custom.selected \cap loaded.downloaded_ids
                                                        \cap target_ids,
                                       !.files_at_start = files]
           /\ history_file' = [downloaded_ids |-> downloaded, failed_ids |-> failed]
    /\ UNCHANGED <<stateVars, zipVars, poolVars, httpVars, target_ids, db_target_ids, files, called,
                   since_cancel, unitVars>>

\* _download_chat_messages: get_chat fails and every id is marked failed, or
\* get_messages answers with the found messages, each of which is queued with a
\* node of its own, the others being marked failed and not found; then
\* download_custom_messages saves the history
DownloadChatMessages(access, found) ==
    /\ custom.phase = "access"
    /\ found \subseteq custom.selected
    /\ ~access => found = {}
    /\ LET missing == custom.selected \ found
           order == CHOOSE f \in [1..Cardinality(found) -> found] :
                        \A i, j \in DOMAIN f : i < j => f[i] < f[j]
           failed == custom.failed_ids \cup missing
       IN  /\ nodes' = nodes \o [i \in 1..Cardinality(found) |-> PlainNode]
           /\ queue' = queue \o [i \in 1..Cardinality(found) |->
                                    [message |-> order[i], node |-> Len(nodes) + i]]
           /\ custom' = [custom EXCEPT
                  !.phase = "wait",
                  !.failed_ids = failed,
                  !.not_found_ids = IF access THEN missing ELSE {},
                  !.download_nodes = {[message_id |-> order[i], node |-> Len(nodes) + i] :
                                         i \in 1..Cardinality(found)}]
           /\ history_file' = [downloaded_ids |-> custom.downloaded_ids, failed_ids |-> failed]
    /\ UNCHANGED <<stateVars, zipVars, worker, httpVars, target_ids, db_target_ids, files, called,
                   since_cancel, unitVars>>

\* what download_task can end with for a message of a custom download:
\* SkipDownload for an existing file, SkipDownload without a file (format not
\* wanted, nothing to download), or the outcomes of a transfer
PlainOutcomes == {"SuccessDownload", "SkipDownload", "SkipNoFile", "FailedDownload", "Exception"}

\* the outcomes the file on disk and the transfer's position allow
AllowedPlain(wk, outcome, attempted) ==
    LET started == TransferStarts(wk.item)
        running == wk.down_byte > 0 \/ wk.aborted
    IN  CASE outcome = "SkipDownload" -> ~started /\ ~attempted
          [] outcome = "SkipNoFile" -> ~running /\ ~attempted
          [] outcome = "SuccessDownload" ->
                started /\ attempted /\ ~wk.aborted /\ wk.down_byte = MaxChunks
          [] OTHER -> (attempted => started) /\ (running => attempted)

\* worker, lines 712-717, for a node without ZIP manager: download_task returns
\* or raises; a successful transfer leaves the message's file complete
WorkerFinishPlain(w, outcome, attempted) ==
    /\ worker[w].pc = "download"
    /\ nodes[worker[w].item.node].zip_download_manager = 0
    /\ outcome \in PlainOutcomes
    /\ AllowedPlain(worker[w], outcome, attempted)
    /\ LET n == worker[w].item.node
           x == worker[w].item.message
       IN  /\ nodes' = [nodes EXCEPT ![n].download_status = StatusAfter(outcome, @)]
           /\ called' = IF attempted THEN called \cup {x} ELSE called
           /\ files' = IF outcome = "SuccessDownload" THEN [files EXCEPT ![x] = "full"] ELSE files
    /\ worker' = [worker EXCEPT ![w] =
           [IdleWorker EXCEPT !.pc = AfterItem(app_is_running, outcome),
                              !.errors = worker[w].errors + IF outcome = "Exception" THEN 1 ELSE 0]]
    /\ UNCHANGED <<stateVars, zipVars, queue, httpVars, target_ids, db_target_ids,
                   history_file, custom, since_cancel, unitVars>>

Finished == {"SuccessDownload", "FailedDownload", "SkipDownload"}

\* the submitted messages whose node status the finalizer counts as completed
CompletedNodes == {d \in custom.download_nodes : nodes[d.node].download_status \in Finished}

\* CustomDownloadManager.update_download_status, one round of its wait loop
\* that finds a download unfinished: the progress view is updated
FinalizerPoll ==
    /\ custom.phase = "wait"
    /\ CompletedNodes # custom.download_nodes
    /\ LET completed == Cardinality(CompletedNodes)
           total == Cardinality(custom.download_nodes)
       IN  /\ download_progress' = UpdateDownloadProgress(completed, total)
           /\ session_active' = SessionActiveAfter(completed, total, session_active)
           /\ download_state' = DownloadStateAfter(completed, total, download_state)
    /\ download_progress' # download_progress
    /\ UNCHANGED <<app_is_running, zipVars, poolVars, httpVars, customVars, since_cancel, unitVars>>

\* CustomDownloadManager.update_download_status from the end of its wait loop
\* (every download finished, or 300 s waited) to its return: marks, the final
\* progress update, the pruning of target_ids, update_config
FinalizeRun(timed_out) ==
    /\ custom.phase = "wait"
    /\ timed_out <=> CompletedNodes # custom.download_nodes
    /\ LET total == Cardinality(custom.download_nodes)
           successful == {d.message_id : d \in {e \in custom.download_nodes :
                              nodes[e.node].download_status \in {"SuccessDownload", "SkipDownload"}}}
           unsuccessful == {d.message_id : d \in custom.download_nodes} \ successful
           downloaded == custom.downloaded_ids \cup successful
           failed == (custom.failed_ids \ successful) \cup unsuccessful
           prune == successful # {} \/ custom.not_found_ids # {}
           candidates == target_ids \ custom.not_found_ids
           demoted == IF prune THEN Demoted(downloaded, candidates) ELSE {}
           removed == IF prune
                      THEN custom.not_found_ids \cup
                               {x \in candidates : IsDownloaded(downloaded, x)}
                      ELSE {}
       IN  /\ custom' = [custom EXCEPT !.phase = "done",
                                       !.downloaded_ids = downloaded \ demoted,
                                       !.failed_ids = failed,
                                       !.not_found_ids = IF prune THEN {} ELSE @]
           /\ history_file' = IF demoted # {}
                              THEN [downloaded_ids |-> downloaded \ demoted, failed_ids |-> failed]
                              ELSE history_file
           /\ target_ids' = target_ids \ removed
           /\ download_progress' = UpdateDownloadProgress(total, total)
           /\ session_active' = SessionActiveAfter(total, total, session_active)
           /\ download_state' = DownloadStateAfter(total, total, download_state)
    /\ UNCHANGED <<app_is_running, zipVars, poolVars, httpVars, db_target_ids, files, called,
                   since_cancel, unitVars>>

\* the process is stopped while nothing is in flight and started again: memory
\* is rebuilt, target_ids come from the database (_build_config_dict)
Restart ==
    /\ custom.phase = "done"
    /\ queue = <<>>
    /\ \A w \in Workers : worker[w].pc = "get"
    /\ download_state' = "Idle"
    /\ download_progress' = ResetDownloadProgress
    /\ session_active' = FALSE
    /\ managers' = <<>>
    /\ active_zip_managers' = {}
    /\ legacy_zip_managers' = {}
    /\ nodes' = <<>>
    /\ worker' = [w \in Workers |-> IdleWorker]
    /\ request' = [t \in Requests |-> IdleRequest]
    /\ response' = NoResponse
    /\ streamed' = [m \in Managers |-> 0]
    /\ custom' = NoRun
    /\ called' = {}
    /\ target_ids' = db_target_ids
    /\ since_cancel' = 0
    /\ UNCHANGED unitVars
    /\ UNCHANGED <<app_is_running, queue, db_target_ids, history_file, files>>

\* ------------------------------------------------ pause, retries and time

\* web_set_download_state with state=pause
PauseDownload ==
    /\ download_state = "Downloading"
    /\ download_state' = "StopDownload"
    /\ UNCHANGED <<app_is_running, download_progress, session_active, zipVars, poolVars,
                   httpVars, customVars, since_cancel, unitVars>>

\* web_set_download_state with state=continue
ContinueDownload ==
    /\ download_state = "StopDownload"
    /\ download_state' = "Downloading"
    /\ UNCHANGED <<app_is_running, download_progress, session_active, zipVars, poolVars,
                   httpVars, customVars, since_cancel, unitVars>>

\* an asyncio.sleep of worker w is over: its seconds have been counted, or they
\* passed while no count was kept
Slept(w) == worker[w].sleep = 0 \/ download_state # "Cancelled"

\* update_download_status, one wake-up of its pause loop: while the state is
\* StopDownload and 300 s have not passed, stop the transfer of a stopped
\* node and sleep another second; else leave the loop and record the chunk
PauseWake(w, timed_out) ==
    /\ worker[w].pc = "paused"
    /\ Slept(w)
    /\ IF download_state = "StopDownload" /\ ~timed_out
       THEN worker' = [worker EXCEPT
                ![w].aborted = @ \/ nodes[worker[w].item.node].is_stop_transmission,
                ![w].sleep = 1]
       ELSE worker' = [worker EXCEPT ![w].pc = "download", ![w].sleep = 0,
                                     ![w].down_byte = @ + 1]
    /\ UNCHANGED <<stateVars, zipVars, nodes, queue, httpVars, customVars, since_cancel, unitVars>>

\* the seconds a FloodWait of the server asks for
FloodWaits == {MaxFloodWait}

\* download_media, lines 629-653: client.download_media raises BadRequest or
\* TypeError and the attempt sleeps RETRY_TIME_OUT, or it raises FloodWait and
\* the attempt sleeps the seconds the server asked for
TransferRaises(w, seconds) ==
    /\ worker[w].pc = "download"
    /\ ~worker[w].aborted
    /\ worker[w].retry < 3
    /\ TransferStarts(worker[w].item)
    /\ seconds \in FloodWaits \cup {RETRY_TIME_OUT}
    /\ worker' = [worker EXCEPT ![w].pc = "retry_sleep", ![w].sleep = seconds,
                                ![w].retry = @ + 1, ![w].down_byte = 0]
    /\ called' = called \cup {worker[w].item.message}
    /\ UNCHANGED <<stateVars, zipVars, nodes, queue, httpVars, target_ids, db_target_ids,
                   history_file, files, custom, since_cancel, unitVars>>

\* the sleep of a failed attempt is over: the next attempt of `for retry in
\* range(3)` starts, or none is left and download_media gives the message up
SleepDone(w) ==
    /\ worker[w].pc = "retry_sleep"
    /\ Slept(w)
    /\ worker' = [worker EXCEPT ![w].pc = "download", ![w].sleep = 0,
                                ![w].aborted = worker[w].retry >= 3]
    /\ UNCHANGED <<stateVars, zipVars, nodes, queue, httpVars, customVars, since_cancel, unitVars>>

InFlight(w) == worker[w].pc \notin {"get", "stopped"}

Min(S) == CHOOSE x \in S : \A y \in S : x <= y

\* time passes while the run state is Cancelled, up to the end of the first
\* sleep. Everything a worker does apart from sleeping is taken to need no
\* time, so time passes only when every worker in flight is inside an
\* asyncio.sleep; the count stops one second past pause_timeout + 1
Tick ==
    /\ download_state = "Cancelled"
    /\ \E w \in Workers : InFlight(w)
    /\ \A w \in Workers : InFlight(w) => worker[w].sleep > 0
    /\ LET seconds == Min({worker[w].sleep : w \in {v \in Workers : InFlight(v)}}
                            \cup {pause_timeout + 2 - since_cancel})
       IN  /\ seconds > 0
           /\ since_cancel' = since_cancel + seconds
           /\ worker' = [w \in Workers |->
                            IF InFlight(w) THEN [worker[w] EXCEPT !.sleep = @ - seconds]
                            ELSE worker[w]]
    /\ UNCHANGED <<stateVars, zipVars, nodes, queue, httpVars, customVars, unitVars>>

\* ------------------------------------------------------- ZIP packaging run

Fetched == {"media", "no_media", "error"}

Pool ==
    \/ \E w \in Workers : WorkerTake(w)
    \/ \E w \in Workers : UpdateDownloadStatus(w)
    \/ \E w \in Workers, outcome \in Outcomes : WorkerFinish(w, outcome)

\* ZIP jobs of module.web.message_downloader.downloads
ZipJob ==
    \/ \E ids \in IdLists : DownloadMessagesAsZip(ids)
    \/ \E m \in Managers : StartDownloadsViaWorkerPool(m)
    \/ \E m \in Managers, fetched \in Fetched : SubmitMessage(m, fetched)
    \/ \E m \in Managers, bad \in 0..1 : CreateZipFile(m, bad)

\* ZIP jobs of module.web_zip_api
LegacyZipJob ==
    \/ \E ids \in IdLists : LegacyDownloadMessagesAsZip(ids)
    \/ \E m \in Managers, fetched \in Fetched : LegacyFetchMessage(m, fetched)
    \/ \E m \in Managers : LegacyPutMessage(m)
    \/ \E m \in Managers, bad \in 0..1 : CreateZipFile(m, bad)

\* status requests to one module's endpoint
StatusRequest(api) ==
    \/ \E t \in Requests, m \in Managers, download \in BOOLEAN : StatusLookup(t, m, download, api)
    \/ \E t \in Requests : StatusEvaluate(t)
    \/ \E t \in Requests : StatusRemoveAndSend(t)

Next ==
    \/ ZipJob
    \/ Pool
    \/ CleanupStaleSession
    \/ CancelDownload
    \/ Shutdown

Spec == Init /\ [][Next]_vars

\* ZIP jobs of module.web.message_downloader and requests to their status endpoint
ServeNext == ZipJob \/ Pool \/ StatusRequest("blueprint")

SpecServe == Init /\ [][ServeNext]_vars

\* ZIP jobs of module.web_zip_api and requests to its status endpoint
LegacyNext == LegacyZipJob \/ Pool \/ StatusRequest("legacy")

SpecLegacy == Init /\ [][LegacyNext]_vars

\* a start of the process on what earlier sessions left: targets in the
\* database, a history file, files of any state in the save directory
InitCustom ==
    /\ Started
    /\ db_target_ids \in SUBSET MsgIds
    /\ target_ids = db_target_ids
    /\ \E downloaded \in SUBSET MsgIds : \E failed \in SUBSET (MsgIds \ downloaded) :
           history_file = [downloaded_ids |-> downloaded, failed_ids |-> failed]
    /\ files \in [MsgIds -> {"none", "empty", "full"}]

CustomPool ==
    \/ \E w \in Workers : WorkerTake(w)
    \/ \E w \in Workers : UpdateDownloadStatus(w)
    \/ \E w \in Workers, outcome \in PlainOutcomes, attempted \in BOOLEAN :
           WorkerFinishPlain(w, outcome, attempted)

CustomRun ==
    \/ \E ids \in SUBSET MsgIds : AddDownloadTasks(ids)
    \/ RunCustomDownloadForSelected
    \/ \E access \in BOOLEAN, found \in SUBSET MsgIds : DownloadChatMessages(access, found)
    \/ FinalizerPoll
    \/ \E timed_out \in BOOLEAN : FinalizeRun(timed_out)

CustomNext == CustomRun \/ CustomPool \/ Restart

SpecCustom == InitCustom /\ [][CustomNext]_vars

\* a custom download that is paused, continued and cancelled, with time counted
\* from the cancellation
CancelPool ==
    \/ CustomPool
    \/ \E w \in Workers, timed_out \in BOOLEAN : PauseWake(w, timed_out)
    \/ \E w \in Workers, seconds \in FloodWaits \cup {RETRY_TIME_OUT} : TransferRaises(w, seconds)
    \/ \E w \in Workers : SleepDone(w)

CancelNext ==
    \/ CustomRun
    \/ CancelPool
    \/ PauseDownload
    \/ ContinueDownload
    \/ CancelDownload
    \/ Tick

SpecCancel == Init /\ [][CancelNext]_vars

\* ---------------------------------------------- download_media, one call

Sizes == 0..MaxSize

FileStates == {NoFile} \cup {[exists |-> TRUE, size |-> n] : n \in Sizes}

\* the existing-file test of download_media, line 544
AlreadyThere(file_size, media_size) == file_size # 0 \/ file_size = media_size

\* _check_download_finish: the size test (in the mutant, no test)
SizeUnchecked(media_size, download_size) == TRUE

SizeMatches(media_size, download_size) == media_size = download_size

\* the retry loop's counter after an attempt that will be retried (in the
\* mutant, partial progress gives the budget back)
RetryReset(retry, end) == IF end = "Mismatch" THEN 0 ELSE retry + 1

RetryAfter(retry, end) == retry + 1

\* the value download_media ends with
Returned(call, result) == [call EXCEPT !.pc = "returned", !.result = result]

\* download_media up to its retry loop, lines 521-594: the media of the
\* message, its meta data, the format filter, the existing-file test (a ZIP
\* job is sent to a temp path instead)
DownloadMediaBegin(is_zip, media_size, existing, has_media, can_download, meta_ok) ==
    /\ dm.pc = "idle"
    /\ LET call == [NoCall EXCEPT !.is_zip = is_zip, !.media_size = media_size,
                                  !.original = existing, !.final = existing]
       IN  dm' = IF ~has_media THEN Returned(call, "SkipDownload")
                 ELSE IF ~meta_ok THEN Returned(call, "FailedDownload")
                 ELSE IF ~can_download THEN Returned(call, "SkipDownload")
                 ELSE IF existing.exists /\ ~is_zip
                 THEN IF AlreadyThere(existing.size, media_size)
                      THEN Returned([call EXCEPT !.checked = TRUE], "SkipDownload")
                      ELSE [call EXCEPT !.checked = TRUE, !.pc = "attempt"]
                 ELSE IF existing.exists /\ is_zip
                 THEN [call EXCEPT !.checked = TRUE, !.redirect = TRUE, !.final = NoFile,
                                   !.pc = "attempt"]
                 ELSE [call EXCEPT !.checked = TRUE, !.pc = "attempt"]
    /\ UNCHANGED <<coreVars, unit2Vars, dbVars, appVars, job>>

AttemptEnds == {"Path", "None", "BadRequest", "FloodWait", "TypeError", "Exception"}

\* one round of `for retry in range(3)`, lines 597-664, up to its sleep:
\* client.download_media is called and returns a path, returns None or raises
DownloadMediaAttempt(end, download_size, move_ok) ==
    /\ dm.pc = "attempt"
    /\ end \in AttemptEnds
    /\ LET call == [dm EXCEPT !.calls = @ + 1, !.got = download_size]
       IN  dm' = CASE end = "Path" /\ SizeMatches(dm.media_size, download_size) /\ move_ok ->
                        Returned([call EXCEPT !.moved = TRUE,
                                              !.final = [exists |-> TRUE, size |-> download_size]],
                                 "SuccessDownload")
                   [] end = "Path" /\ SizeMatches(dm.media_size, download_size) /\ ~move_ok ->
                        Returned([call EXCEPT !.temp = TRUE], "FailedDownload")
                   [] end = "Path" /\ ~SizeMatches(dm.media_size, download_size) ->
                        [call EXCEPT !.pc = "sleep", !.temp = FALSE,
                                     !.ends = Append(@, "Mismatch")]
                   [] end \in {"None", "Exception"} -> Returned(call, "FailedDownload")
                   [] OTHER -> [call EXCEPT !.pc = "sleep", !.ends = Append(@, end)]
    /\ UNCHANGED <<coreVars, unit2Vars, dbVars, appVars, job>>

\* the sleep of a round is over: the next round starts, or range(3) is used up
\* and download_media returns FailedDownload (line 664)
DownloadMediaRetry ==
    /\ dm.pc = "sleep"
    /\ LET retry == RetryAfter(dm.retry, dm.ends[Len(dm.ends)])
       IN  dm' = IF retry >= 3 THEN Returned([dm EXCEPT !.retry = retry], "FailedDownload")
                 ELSE [dm EXCEPT !.retry = retry, !.pc = "attempt"]
    /\ UNCHANGED <<coreVars, unit2Vars, dbVars, appVars, job>>

MediaNext ==
    \/ \E is_zip, has_media, can_download, meta_ok \in BOOLEAN :
           \E media_size \in Sizes, existing \in FileStates :
               DownloadMediaBegin(is_zip, media_size, existing, has_media, can_download, meta_ok)
    \/ \E end \in AttemptEnds, download_size \in Sizes, move_ok \in BOOLEAN :
           DownloadMediaAttempt(end, download_size, move_ok)
    \/ DownloadMediaRetry

SpecMedia == Init /\ [][MediaNext]_vars

\* ------------------------------------------- BaseRepository, one table

\* the columns of the table a caller names, and their values
Fields == {"key", "value"}
Keys == 1..MaxKeys
Values == 1..MaxValue
FieldValues(f) == IF f = "key" THEN Keys ELSE Values

\* the dictionaries a caller passes as conditions or as data
Dicts ==
    UNION { {d \in [D -> Keys \cup Values] : \A f \in D : d[f] \in FieldValues(f)} :
            D \in SUBSET Fields }

\* the unique index of the table (schema.sql: app_config.key is the primary
\* key, download_history has UNIQUE(chat_id, message_id))
UniqueFields == {"key"}

IntegrityError(rs) == \E r1, r2 \in rs : r1.id # r2.id /\ \A f \in UniqueFields : r1[f] = r2[f]

\* _build_where_clause: the rows a WHERE of these conditions selects
Matches(row, conditions) == \A f \in DOMAIN conditions : row[f] = conditions[f]

Selected(conditions) == {r \in rows : Matches(r, conditions)}

\* the guard of update and delete (in the mutant, no guard: the statement
\* runs without a WHERE)
NeverRefused(conditions) == FALSE

Refused(conditions) == DOMAIN conditions = {}

\* SET of an UPDATE
Assigned(row, data) == [f \in DOMAIN row |-> IF f \in DOMAIN data THEN data[f] ELSE row[f]]

Updated(conditions, data) ==
    {IF Matches(r, conditions) THEN Assigned(r, data) ELSE r : r \in rows}

\* the rowid SQLite gives the next row
LastRowId == IF rows = {} THEN 0 ELSE CHOOSE n \in {r.id : r \in rows} : \A r \in rows : r.id <= n

Inserted(data) == rows \cup {[id |-> LastRowId + 1, key |-> data.key, value |-> data.value]}

\* a call ends: it returns an integer, returns None or raises
Done(t, op, conditions, ends, result) ==
    [thread EXCEPT ![t] = [NoThread EXCEPT !.pc = "done", !.op = op, !.conditions = conditions,
                                           !.ends = ends, !.result = result]]

\* BaseRepository.insert, lines 196-213: one transaction; any failure is
\* raised as Exception("Insert failed")
RepoInsert(t, data) ==
    /\ thread[t].pc = "idle"
    /\ DOMAIN data = Fields
    /\ LastRowId < MaxRowId
    /\ IF IntegrityError(Inserted(data))
       THEN /\ thread' = Done(t, "insert", NoDict, "raised", 0)
            /\ UNCHANGED rows
       ELSE /\ thread' = Done(t, "insert", NoDict, "int", LastRowId + 1)
            /\ rows' = Inserted(data)
    /\ UNCHANGED notDb

\* BaseRepository.update, lines 246-271
RepoUpdate(t, conditions, data) ==
    /\ thread[t].pc = "idle"
    /\ IF Refused(conditions) \/ DOMAIN data = {}
       THEN /\ thread' = Done(t, "update", conditions, "int", 0)
            /\ UNCHANGED rows
       ELSE IF IntegrityError(Updated(conditions, data))
       THEN /\ thread' = Done(t, "update", conditions, "raised", 0)
            /\ UNCHANGED rows
       ELSE /\ thread' = Done(t, "update", conditions, "None", 0)
            /\ rows' = Updated(conditions, data)
    /\ UNCHANGED notDb

\* BaseRepository.delete, lines 273-294
RepoDelete(t, conditions) ==
    /\ thread[t].pc = "idle"
    /\ IF Refused(conditions)
       THEN /\ thread' = Done(t, "delete", conditions, "int", 0)
            /\ UNCHANGED rows
       ELSE /\ thread' = Done(t, "delete", conditions, "None", 0)
            /\ rows' = rows \ Selected(conditions)
    /\ UNCHANGED notDb

\* the conditions upsert builds from the unique fields its data carries
UniqueConditions(data) == [f \in UniqueFields \cap DOMAIN data |-> data[f]]

\* BaseRepository.upsert, lines 296-310: its find_one
UpsertFind(t, data) ==
    /\ thread[t].pc = "idle"
    /\ DOMAIN data = Fields
    /\ \E existing \in IF Selected(UniqueConditions(data)) = {} THEN {0}
                       ELSE {r.id : r \in Selected(UniqueConditions(data))} :
           thread' = [thread EXCEPT ![t] = [NoThread EXCEPT !.pc = "found", !.op = "upsert",
                                                !.conditions = UniqueConditions(data),
                                                !.data = data, !.existing = existing]]
    /\ UNCHANGED <<notDb, rows>>

\* BaseRepository.upsert, lines 312-317: the update of the row it found, or
\* the insert
UpsertWrite(t) ==
    /\ thread[t].pc = "found"
    /\ LastRowId < MaxRowId
    /\ LET conditions == thread[t].conditions
           data == thread[t].data
       IN  IF thread[t].existing # 0
           THEN /\ thread' = [thread EXCEPT ![t].pc = "done", ![t].data = NoDict,
                                             ![t].ends = "int", ![t].result = thread[t].existing]
                /\ rows' = Updated(conditions, data)
           ELSE IF IntegrityError(Inserted(data))
           THEN /\ thread' = [thread EXCEPT ![t].pc = "done", ![t].data = NoDict,
                                             ![t].ends = "raised"]
                /\ UNCHANGED rows
           ELSE /\ thread' = [thread EXCEPT ![t].pc = "done", ![t].data = NoDict,
                                             ![t].ends = "int", ![t].result = LastRowId + 1]
                /\ rows' = Inserted(data)
    /\ UNCHANGED notDb

\* the call is over and its thread makes the next
RepoReturn(t) ==
    /\ thread[t].pc = "done"
    /\ thread' = [thread EXCEPT ![t] = NoThread]
    /\ UNCHANGED <<notDb, rows>>

RepoNext ==
    \E t \in Threads :
        \/ \E data \in Dicts : RepoInsert(t, data)
        \/ \E conditions, data \in Dicts : RepoUpdate(t, conditions, data)
        \/ \E conditions \in Dicts : RepoDelete(t, conditions)
        \/ \E data \in Dicts : UpsertFind(t, data)
        \/ UpsertWrite(t)
        \/ RepoReturn(t)

SpecRepo == Init /\ [][RepoNext]_vars

\* ------------------------- DatabaseApplication: the chat's high-water mark

\* set_download_id, lines 407-439: the in-memory mark of the node's chat
SetDownloadId(message_id) ==
    /\ chat' = [chat EXCEPT !.memory = IF @ >= message_id THEN @ ELSE message_id]
    /\ chat'.memory # chat.memory
    /\ UNCHANGED <<coreVars, unit2Vars, dm, dbVars, saver, job>>

\* save_config_to_database, lines 326-332, and _save_chat_configs, lines
\* 375-383: a round of the retry loop begins and builds the chat's record
\* from the in-memory mark
SaveRead(t) ==
    /\ saver[t].pc \in {"idle", "retry"}
    /\ saver' = [saver EXCEPT ![t].pc = "write", ![t].data = chat.memory,
                              ![t].attempts = @ + 1, ![t].locked = FALSE]
    /\ UNCHANGED <<coreVars, unit2Vars, dm, dbVars, chat, job>>

\* the exception that leaves the try block of save_config_to_database when a
\* write met a locked database: set_config_value (repositories.py 69-73) and
\* _save_chat_configs (lines 387-388) both catch Exception
Escaped(locked) == "none"

\* DatabaseManager.execute_query, lines 150-178: the statement runs once and
\* an error is logged and raised again; then the rest of the round of
\* save_config_to_database, lines 355-373
SaveWrite(t, locked) ==
    /\ saver[t].pc = "write"
    /\ chat' = [chat EXCEPT !.stored = IF locked THEN @ ELSE saver[t].data]
    /\ LET err == Escaped(locked)
           sv == [saver[t] EXCEPT !.locked = locked]
       IN  saver' = [saver EXCEPT ![t] =
               IF err = "none" THEN [sv EXCEPT !.pc = "returned"]
               ELSE IF err = "locked" /\ sv.retry_count < max_retries - 1
               THEN [sv EXCEPT !.pc = "retry", !.retry_count = @ + 1,
                               !.waits = Append(@, 2 ^ (sv.retry_count + 1))]
               ELSE [sv EXCEPT !.pc = "returned"]]
    /\ UNCHANGED <<coreVars, unit2Vars, dm, dbVars, job>>

\* update_config has returned to its caller
SaveReturn(t) ==
    /\ saver[t].pc = "returned"
    /\ saver' = [saver EXCEPT ![t] = NoSave]
    /\ UNCHANGED <<coreVars, unit2Vars, dm, dbVars, chat, job>>

\* the process ends and starts again: _load_chat_configs, lines 230-249
RestartApplication ==
    /\ chat.run < MaxRuns
    /\ chat' = [chat EXCEPT !.memory = chat.stored, !.run = @ + 1]
    /\ saver' = [t \in Threads |-> NoSave]
    /\ UNCHANGED <<coreVars, unit2Vars, dm, dbVars, job>>

SaveNext ==
    \/ \E message_id \in MsgIds : SetDownloadId(message_id)
    \/ \E t \in Threads :
           \/ SaveRead(t)
           \/ \E locked \in BOOLEAN : SaveWrite(t, locked)
           \/ SaveReturn(t)
    \/ RestartApplication

SpecSave == Init /\ [][SaveNext]_vars

\* ------------------------------- test_concurrent_access: worker threads

\* the config key of a worker, f'test_worker_{worker_id}' (in the mutant, one
\* key for all workers)
SharedKey(t) == 1

WorkerKey(t) == t

\* the value a worker writes, the same for every worker (f'value_{i}' with
\* the last i of its loop)
WorkerValue == MaxValue

\* lines 146-148: app.get_download_statistics(), a SELECT
WorkerRead(t) ==
    /\ ~job[t].completed
    /\ job[t].reads < statistics_reads
    /\ job' = [job EXCEPT ![t].reads = @ + 1]
    /\ UNCHANGED <<coreVars, unit2Vars, dm, dbVars, appVars>>

\* line 151 and AppConfigRepository.set_config_value, lines 41-70: the
\* upsert of the worker's key begins
WorkerSet(t) ==
    /\ ~job[t].completed
    /\ job[t].reads = statistics_reads
    /\ UpsertFind(t, [key |-> WorkerKey(t), value |-> WorkerValue])

\* set_config_value, lines 69-73, returns True, or False when upsert raised;
\* lines 153-156: the worker reports that it completed
WorkerComplete(t) ==
    /\ ~job[t].completed
    /\ thread[t].pc = "done"
    /\ job' = [job EXCEPT ![t].completed = TRUE, ![t].set_ok = thread[t].ends # "raised"]
    /\ thread' = [thread EXCEPT ![t] = NoThread]
    /\ UNCHANGED <<coreVars, unit2Vars, dm, appVars, rows>>

WorkersNext ==
    \E t \in Threads :
        \/ WorkerRead(t)
        \/ WorkerSet(t)
        \/ UpsertWrite(t)
        \/ WorkerComplete(t)

SpecWorkers == Init /\ [][WorkersNext]_vars

\* ------------------------------ CustomDownloadManager: is_downloaded

\* where the file of a message is: nowhere, in the chat's directory under
\* save_path or bot_save_path, in a subdirectory of one of them, deeper than
\* that, or nowhere while a directory of the chat carries the message's name
Places == {"none", "root", "subdir", "bot_root", "bot_subdir", "deep", "root_dir"}

\* a file of the message exists on disk
OnDisk(place) == place \notin {"none", "root_dir"}

\* the search of is_downloaded, lines 101-148 (in the mutant, the history
\* alone decides)
FoundByHistory(place) == TRUE

FoundOnDisk(place) == place \in {"root", "subdir", "bot_root", "bot_subdir"}

\* mark_downloaded, lines 61-73
MarkDownloaded(x) ==
    /\ hist.asked = 0
    /\ x \notin hist.downloaded_ids
    /\ hist' = [hist EXCEPT !.downloaded_ids = @ \cup {x}]
    /\ UNCHANGED notHist

\* save_history, lines 49-59
SaveHistory ==
    /\ hist.asked = 0
    /\ hist.saved # hist.downloaded_ids
    /\ hist' = [hist EXCEPT !.saved = hist.downloaded_ids]
    /\ UNCHANGED notHist

\* the user or a download moves, writes or deletes the file of a message
FileChange(x, place) ==
    /\ hist.asked = 0
    /\ hist.place[x] # place
    /\ hist' = [hist EXCEPT !.place[x] = place]
    /\ UNCHANGED notHist

\* is_downloaded, lines 83-159
IsDownloadedCall(x) ==
    /\ hist.asked = 0
    /\ hist' =
         IF x \notin hist.downloaded_ids
         THEN [hist EXCEPT !.asked = x, !.result = FALSE]
         ELSE IF FoundOnDisk(hist.place[x])
         THEN [hist EXCEPT !.asked = x, !.result = TRUE]
         ELSE [hist EXCEPT !.asked = x, !.result = FALSE,
                           !.downloaded_ids = @ \ {x},
                           !.saved = hist.downloaded_ids \ {x}]
    /\ UNCHANGED notHist

\* the caller has the answer
IsDownloadedReturn ==
    /\ hist.asked # 0
    /\ hist' = [hist EXCEPT !.asked = 0]
    /\ UNCHANGED notHist

HistoryNext ==
    \/ \E x \in MsgIds : MarkDownloaded(x)
    \/ SaveHistory
    \/ \E x \in MsgIds, place \in Places : FileChange(x, place)
    \/ \E x \in MsgIds : IsDownloadedCall(x)
    \/ IsDownloadedReturn

SpecHistory == Init /\ [][HistoryNext]_vars

\* -------------------------------- the queue and its submission paths

\* TaskNode.download_status of a new node: no message has a status
NoStatus == [x \in MsgIds |-> "none"]

\* need_skip_message (app_db.py 390-405): the id is retried separately or
\* was downloaded before (in the mutant, nothing is skipped)
NeverSkipped(ids_to_retry, success, x) == FALSE

NeedSkipMessage(ids_to_retry, success, x) == x \in ids_to_retry \/ x \in success

\* add_download_task, lines 292-302, and the same three statements of
\* _process_message (custom_download.py 358-362) and of
\* start_downloads_via_worker_pool (downloads.py 487-494)
Enqueued(x, n) == Append(task_queue, [message |-> x, node |-> n])

MarkDownloading(nds, x, n) == [nds EXCEPT ![n].download_status[x] = "Downloading"]

\* download_all_chat, lines 824-826, and download_chat_task up to its first
\* await, lines 753-766: the chat gets a node of its own
ScanStart(ids_to_retry, success) ==
    /\ scan.phase \in {"none", "done"}
    /\ Len(task_nodes) < MaxTaskNodes
    /\ ids_to_retry \cap success = {}
    /\ task_nodes' = Append(task_nodes, [download_status |-> NoStatus])
    /\ scan' = [phase |-> "retry", node |-> Len(task_nodes) + 1,
                ids_to_retry |-> ids_to_retry, success |-> success, pos |-> 0]
    /\ UNCHANGED <<notQueue, task_queue, taken>>

\* lines 767-772: the next message of the retry list is submitted
ScanRetry(empty) ==
    /\ scan.phase = "retry"
    /\ LET left == {x \in scan.ids_to_retry : x > scan.pos}
       IN  IF left = {}
           THEN /\ scan' = [scan EXCEPT !.phase = "scan", !.pos = 0]
                /\ UNCHANGED <<task_nodes, task_queue>>
           ELSE LET x == CHOOSE y \in left : \A z \in left : y <= z
                IN  /\ scan' = [scan EXCEPT !.pos = x]
                    /\ IF empty
                       THEN UNCHANGED <<task_nodes, task_queue>>
                       ELSE /\ task_nodes' = MarkDownloading(task_nodes, x, scan.node)
                            /\ task_queue' = Enqueued(x, scan.node)
    /\ UNCHANGED <<notQueue, taken>>

\* lines 774-810: the next message of the chat's history is skipped,
\* submitted or filtered out
ScanMessage(empty, filter_ok) ==
    /\ scan.phase = "scan"
    /\ IF scan.pos >= MaxMessageIds
       THEN /\ scan' = [scan EXCEPT !.phase = "done"]
            /\ UNCHANGED <<task_nodes, task_queue>>
       ELSE LET x == scan.pos + 1
            IN  /\ scan' = [scan EXCEPT !.pos = x]
                /\ IF NeedSkipMessage(scan.ids_to_retry, scan.success, x)
                   THEN UNCHANGED <<task_nodes, task_queue>>
                   ELSE IF filter_ok
                   THEN IF empty
                        THEN UNCHANGED <<task_nodes, task_queue>>
                        ELSE /\ task_nodes' = MarkDownloading(task_nodes, x, scan.node)
                             /\ task_queue' = Enqueued(x, scan.node)
                   ELSE /\ task_nodes' = [task_nodes EXCEPT
                                             ![scan.node].download_status[x] = "SkipDownload"]
                        /\ UNCHANGED task_queue
    /\ UNCHANGED <<notQueue, taken>>

\* CustomDownloadManager._process_message, custom_download.py 344-377, and
\* one round of start_downloads_via_worker_pool, downloads.py 481-494: a node
\* of its own for the message
ProcessMessage(x) ==
    /\ Len(task_nodes) < MaxTaskNodes
    /\ task_nodes' = MarkDownloading(Append(task_nodes, [download_status |-> NoStatus]),
                                     x, Len(task_nodes) + 1)
    /\ task_queue' = Enqueued(x, Len(task_nodes) + 1)
    /\ UNCHANGED <<notQueue, taken, scan>>

\* worker, lines 699-709: an item leaves the queue
TakeItem(w) ==
    /\ taken[w] = NoItem
    /\ task_queue # <<>>
    /\ taken' = [taken EXCEPT ![w] = Head(task_queue)]
    /\ task_queue' = Tail(task_queue)
    /\ UNCHANGED <<notQueue, task_nodes, scan>>

\* worker, lines 704-709, drops the item of a stopped node; download_task,
\* line 367, records the outcome of any other
FinishItem(w, stopped, status) ==
    /\ taken[w] # NoItem
    /\ taken' = [taken EXCEPT ![w] = NoItem]
    /\ task_nodes' = IF stopped THEN task_nodes
                     ELSE [task_nodes EXCEPT
                              ![taken[w].node].download_status[taken[w].message] = status]
    /\ UNCHANGED <<notQueue, task_queue, scan>>

QueueNext ==
    \/ \E ids_to_retry, success \in SUBSET MsgIds : ScanStart(ids_to_retry, success)
    \/ \E empty \in BOOLEAN : ScanRetry(empty)
    \/ \E empty, filter_ok \in BOOLEAN : ScanMessage(empty, filter_ok)
    \/ \E x \in MsgIds : ProcessMessage(x)
    \/ \E w \in Workers : TakeItem(w)
    \/ \E w \in Workers, stopped \in BOOLEAN, status \in Finished : FinishItem(w, stopped, status)

SpecQueue == Init /\ [][QueueNext]_vars

\* ------------------- download_stat.update_download_status, one transfer

\* client.stop_transmission() raises StopTransmission, which ends the
\* callback where it is called (in the mutant it returns)
StopTransmissionReturns == FALSE

StopTransmissionRaises == TRUE

\* the pause loop's timeout test, line 89 (in the mutant, no timeout)
NeverTimedOut(elapsed) == FALSE

TimedOut(elapsed) == elapsed > pause_timeout

\* the callback ends in client.stop_transmission()
Stopped(c) == [c EXCEPT !.pc = "returned", !.ended = "stopped"]

\* lines 97-176: the message's entry of _download_result, the speed figures
\* and the node's byte counter take the chunk; the callback returns
Recorded(c, how) ==
    [c EXCEPT !.pc = "returned", !.ended = how, !.entry = c.down_byte,
              !.total_download_byte = IF c.down_byte > c.entry THEN @ + (c.down_byte - c.entry)
                                      ELSE @]

\* what follows a client.stop_transmission() that raises or returns
AfterStop(c, otherwise) == IF StopTransmissionRaises THEN Stopped(c) ELSE otherwise

\* the client calls update_download_status after a chunk, lines 51-80
CallbackEnter ==
    /\ cb.pc = "idle"
    /\ cb.down_byte < MaxSize
    /\ LET c == [cb EXCEPT !.down_byte = @ + 1, !.elapsed = 0, !.ended = "none",
                           !.stop_at_entry = cb.is_stop_transmission]
           on == [c EXCEPT !.pc = "loop"]
       IN  cb' = IF c.is_stop_transmission /\ StopTransmissionRaises THEN Stopped(c)
                 ELSE IF download_state = "Cancelled"
                 THEN AfterStop([c EXCEPT !.is_stop_transmission = TRUE], on)
                 ELSE on
    /\ UNCHANGED notCallback

\* the test of `while get_download_state() == StopDownload`, line 81
PauseLoopTest ==
    /\ cb.pc = "loop"
    /\ cb' = IF download_state = "StopDownload" THEN [cb EXCEPT !.pc = "body"]
             ELSE Recorded(cb, IF cb.elapsed = 0 THEN "recorded" ELSE "resumed")
    /\ UNCHANGED notCallback

\* the body of the pause loop up to its sleep, lines 82-95
PauseLoopBody ==
    /\ cb.pc = "body"
    /\ cb' = IF download_state = "Cancelled"
             THEN AfterStop([cb EXCEPT !.is_stop_transmission = TRUE], Recorded(cb, "resumed"))
             ELSE IF TimedOut(cb.elapsed) THEN Recorded(cb, "timeout")
             ELSE IF cb.is_stop_transmission
             THEN AfterStop(cb, [cb EXCEPT !.pc = "sleep"])
             ELSE [cb EXCEPT !.pc = "sleep"]
    /\ UNCHANGED notCallback

\* asyncio.sleep(1), line 95, is over
PauseSleepDone ==
    /\ cb.pc = "sleep"
    /\ cb.elapsed < pause_timeout + 3
    /\ cb' = [cb EXCEPT !.pc = "loop", !.elapsed = @ + 1]
    /\ UNCHANGED notCallback

\* the callback is over and the transfer goes on, or StopTransmission ended
\* the transfer
CallbackReturn ==
    /\ cb.pc = "returned"
    /\ cb.ended # "stopped"
    /\ cb' = [cb EXCEPT !.pc = "idle"]
    /\ UNCHANGED notCallback

\* DownloadBot.stop_task, bot.py 87-98: TaskNode.stop_transmission()
StopTask ==
    /\ ~cb.is_stop_transmission
    /\ cb' = [cb EXCEPT !.is_stop_transmission = TRUE]
    /\ UNCHANGED notCallback

CallbackNext ==
    \/ CallbackEnter
    \/ PauseLoopTest
    \/ PauseLoopBody
    \/ PauseSleepDone
    \/ CallbackReturn
    \/ StopTask
    \/ \E ids \in SUBSET MsgIds : AddDownloadTasks(ids)
    \/ PauseDownload
    \/ ContinueDownload
    \/ CancelDownload

SpecCallback == Init /\ [][CallbackNext]_vars

\* the packaging run alone, every task of the event loop scheduled fairly
PackagingNext == ZipJob \/ Pool

Fairness ==
    /\ \A m \in Managers : WF_vars(StartDownloadsViaWorkerPool(m))
    /\ \A m \in Managers : WF_vars(\E fetched \in Fetched : SubmitMessage(m, fetched))
    /\ \A m \in Managers : WF_vars(\E bad \in 0..1 : CreateZipFile(m, bad))
    /\ \A w \in Workers : WF_vars(WorkerTake(w))
    /\ \A w \in Workers : WF_vars(\E outcome \in Outcomes : WorkerFinish(w, outcome))

FairSpec == Init /\ [][PackagingNext]_vars /\ Fairness

\* ------------------------------------------------------------- properties

\* C1: create_zip_file is invoked exactly once per manager, and only after every
\* requested message is resolved: no invocation before that, one from then on,
\* whatever the order of worker callbacks and submission-time failures
C1_CreateZipFileExactlyOnce ==
    \A m \in DOMAIN managers :
        managers[m].create_calls = IF AllProcessed(managers[m]) THEN 1 ELSE 0

\* C2: whenever a manager's resolved count reaches the requested total,
\* create_zip_file is eventually invoked and zip_ready eventually becomes true,
\* whichever event resolved the last message
C2_ResolvedLeadsToZipReady ==
    \A m \in Managers :
        (m \in DOMAIN managers /\ AllProcessed(managers[m]))
            ~> (m \in DOMAIN managers /\ managers[m].create_calls > 0 /\ managers[m].zip_ready)

\* node n's message is also the message of a node of a newer ZIP manager
Overtaken(n) ==
    \E n2 \in DOMAIN nodes :
        /\ nodes[n2].zip_download_manager > nodes[n].zip_download_manager
        /\ nodes[n2].zip_message_id = nodes[n].zip_message_id

\* worker w's step is a progress callback of its running transfer
IsProgressCallback(w) ==
    /\ worker[w].pc = "download"
    /\ worker'[w] # worker[w]
    /\ worker'[w].pc \in {"download", "paused"}

\* C6: when a newer ZIP job targets the message an older job is transferring, the
\* older node's next progress callback sets is_stop_transmission on that node and
\* stops the transfer
C6_OvertakenCallbackStops ==
    [][\A w \in Workers :
          (IsProgressCallback(w) /\ Overtaken(worker[w].item.node))
              => /\ nodes'[worker[w].item.node].is_stop_transmission
                 /\ worker'[w].aborted]_vars

\* C10: a worker that caught an exception while processing a queue item has not
\* terminated: while app.is_running holds it waits for or processes a later item
C10_WorkerSurvivesException ==
    \A w \in Workers :
        (worker[w].errors > 0 /\ app_is_running) => worker[w].pc \in {"get", "download", "paused"}

\* a worker caught an exception and took the next queue item
C10_Witness ==
    \E w \in Workers :
        worker[w].errors > 0 /\ app_is_running /\ worker[w].pc = "download"

\* C3: a manager's archive is streamed for at most one request; that request
\* removes the manager from the registry; every answer given once the archive
\* was streamed, to a sequential or a concurrent request, is 410 Gone
C3_StreamedOnceThenGone ==
    /\ \A m \in Managers : streamed[m] <= 1
    /\ \A m \in Managers : streamed[m] > 0 => m \notin active_zip_managers
    /\ response.streamed_before => response.code = 410

\* request thread t takes a step of a status request that carries no download parameter
StatusOnlyStep(t) ==
    /\ request'[t] # request[t]
    /\ ~request[t].download
    /\ ~request'[t].download

\* C4: a status request without the download parameter changes no state: the
\* registry, the managers (lists, zip_ready, archive) and the streamed archives
\* stay as they are, before and after the archive is ready
C4_StatusRequestChangesNothing ==
    [][\A t \in Requests :
          StatusOnlyStep(t) => UNCHANGED <<zipVars, poolVars, stateVars, streamed>>]_vars

\* C7: a message that is in target_ids and in downloaded_ids when
\* run_custom_download_for_selected starts, its file being on disk, is not
\* downloaded again: no download_media call of the client is made for it and
\* its file stays as it was
C7_NoSecondDownload ==
    \A x \in custom.at_start :
        custom.files_at_start[x] # "none"
            => /\ x \notin called
               /\ files[x] = custom.files_at_start[x]

\* the messages of the run by the status their node ended with
EndedAs(statuses) ==
    {d.message_id : d \in {e \in custom.download_nodes : nodes[e.node].download_status \in statuses}}

\* C8: when the finalizer completes a run, target_ids holds none of the run's
\* messages that ended as success or skipped, none that were reported not found,
\* and every one that ended as failed, whatever the mix of outcomes
C8_FinalizerPrunesTargets ==
    [][(custom.phase = "wait" /\ custom'.phase = "done")
          => /\ target_ids' \cap EndedAs({"SuccessDownload", "SkipDownload"}) = {}
             /\ target_ids' \cap custom.not_found_ids = {}
             /\ EndedAs({"FailedDownload"}) \subseteq target_ids']_vars

\* C9: a stop of the idle process after a completed run and a new start read
\* back the history and target_ids the process held before the stop
C9_RestartReadsBackTheSame ==
    [][(custom.phase = "done" /\ custom'.phase = "none")
          => /\ target_ids' = target_ids
             /\ history_file'.downloaded_ids = custom.downloaded_ids
             /\ history_file'.failed_ids = custom.failed_ids]_vars

\* C5: once the run state has been Cancelled for more than pause_timeout + 1
\* seconds, no worker is in flight: each one waits on the queue or has
\* returned, wherever the cancellation met it
C5_CancelledWorkersIdleInTime ==
    (download_state = "Cancelled" /\ since_cancel > pause_timeout + 1)
        => \A w \in Workers : ~InFlight(w)

\* every round of the call so far ended in BadRequest or in a timeout
OnlyRetryable(call) ==
    \A i \in DOMAIN call.ends : call.ends[i] \in {"BadRequest", "TypeError", "Mismatch"}

\* C11: download_media calls client.download_media at most 3 times for a
\* message and then returns; the budget is counted per message and partial
\* progress does not give it back; three rounds ending in BadRequest or
\* timeout yield FailedDownload
C11_ThreeAttemptsThenFailed ==
    /\ dm.calls <= 3
    /\ dm.calls >= Len(dm.ends)
    /\ (dm.pc = "sleep" /\ Len(dm.ends) = 3) => dm.retry = 2
    /\ (dm.pc = "returned" /\ Len(dm.ends) = 3 /\ OnlyRetryable(dm))
           => dm.result = "FailedDownload"

\* three rounds, one of them with a file of the wrong size, and FailedDownload
C11_Witness ==
    /\ dm.pc = "returned"
    /\ dm.calls = 3
    /\ dm.ends = <<"BadRequest", "Mismatch", "TypeError">>
    /\ dm.result = "FailedDownload"

\* C12: download_media returns SuccessDownload only for a downloaded file of
\* the declared size that has been moved to its final path; after a size
\* mismatch the temp file is gone and the round is retried like a BadRequest,
\* inside the same budget
C12_SuccessOnlyForRightSize ==
    /\ dm.result = "SuccessDownload"
           => /\ dm.got = dm.media_size
              /\ dm.moved
              /\ dm.final = [exists |-> TRUE, size |-> dm.media_size]
    /\ (dm.pc = "sleep" /\ dm.ends[Len(dm.ends)] = "Mismatch")
           => /\ ~dm.temp
              /\ dm.result = "none"
              /\ dm.retry = Len(dm.ends) - 1

\* a round with a file of the wrong size, then a round that succeeds
C12_Witness ==
    /\ dm.result = "SuccessDownload"
    /\ dm.ends = <<"Mismatch">>
    /\ dm.calls = 2
    /\ dm.media_size > 0

\* C13: when the target file of a message exists and the job is not a ZIP job,
\* download_media returns SkipDownload, calls client.download_media not once
\* and leaves the file as it is, whatever the file's size
C13_ExistingFileIsSkipped ==
    (dm.checked /\ dm.original.exists /\ ~dm.is_zip)
        => /\ dm.calls = 0
           /\ dm.final = dm.original
           /\ (dm.pc = "returned" => dm.result = "SkipDownload")

\* the edges of the run state machine as specified
StateEdges ==
    {<<"Idle", "Downloading">>, <<"Downloading", "StopDownload">>,
     <<"StopDownload", "Downloading">>, <<"Downloading", "Cancelled">>,
     <<"StopDownload", "Cancelled">>, <<"Downloading", "Completed">>,
     <<"Cancelled", "Idle">>, <<"Completed", "Idle">>}

\* C14: every change of the run state follows an edge of the specified state
\* machine, whatever requests, progress updates and job completions happen
C14_RunStateFollowsEdges ==
    [][download_state' # download_state
          => <<download_state, download_state'>> \in StateEdges]_vars

\* C15: when a cancel is issued, the registry of active ZIP managers is empty
\* afterwards, every manager that was active is marked cancelled and has lost
\* its ZIP file and its temp directory, and progress and session are cleared
C15_CancelCleansZipManagers ==
    [][(download_state # "Cancelled" /\ download_state' = "Cancelled")
          => /\ active_zip_managers' = {}
             /\ \A m \in active_zip_managers :
                    /\ managers'[m].is_cancelled
                    /\ ~managers'[m].zip_file
                    /\ ~managers'[m].temp_dir
             /\ ~download_progress'.active
             /\ ~session_active']_vars

\* a call of the repository by thread t begins and ends in this step
Calls(t, ops) ==
    /\ thread[t].pc = "idle"
    /\ thread'[t].pc = "done"
    /\ thread'[t].op \in ops

\* C16: a Delete or an Update of the repository whose filter is empty changes
\* no row of the table and reports 0 rows
C16_EmptyFilterChangesNoRow ==
    [][\A t \in Threads :
           (Calls(t, {"update", "delete"}) /\ DOMAIN thread'[t].conditions = {})
               => /\ rows' = rows
                  /\ thread'[t].ends = "int"
                  /\ thread'[t].result = 0]_vars

\* an Update and a Delete with an empty filter have both returned and the
\* table still has its rows
C16_Witness ==
    /\ rows # {}
    /\ \E t, u \in Threads :
           /\ thread[t].pc = "done" /\ thread[t].op = "delete"
           /\ DOMAIN thread[t].conditions = {}
           /\ thread[u].pc = "done" /\ thread[u].op = "update"
           /\ DOMAIN thread[u].conditions = {}

\* both threads have finished an upsert with the same unique-field values
UpsertedTwice(t, u) ==
    /\ t # u
    /\ thread[t].pc = "done" /\ thread[t].op = "upsert"
    /\ thread[u].pc = "done" /\ thread[u].op = "upsert"
    /\ thread[t].conditions = thread[u].conditions

\* C17: when Upsert has been called twice with the same unique-field values,
\* by two threads in any interleaving, neither call has failed and the table
\* holds exactly one row with these values
C17_UpsertTwiceOneRow ==
    \A t, u \in Threads :
        UpsertedTwice(t, u)
            => /\ thread[t].ends # "raised"
               /\ thread[u].ends # "raised"
               /\ Cardinality(Selected(thread[t].conditions)) = 1

\* C18: last_read_message_id of a chat never decreases, neither the in-memory
\* value during a run of the process nor the stored value across saves and
\* restarts
C18_LastReadNeverDecreases ==
    [][/\ chat'.stored >= chat.stored
       /\ (chat'.run = chat.run => chat'.memory >= chat.memory)]_vars

\* C19: a storage write that meets lock contention is retried with
\* exponential backoff (2 s, 4 s, 8 s, at most 3 attempts), and when the
\* contention lasts through the last attempt the caller gets the error
C19_LockedWriteRetriedThenSurfaced ==
    \A t \in Threads :
        (saver[t].pc = "returned" /\ saver[t].locked)
            => /\ saver[t].attempts = max_retries
               /\ Len(saver[t].waits) >= saver[t].attempts - 1
               /\ \A i \in DOMAIN saver[t].waits : saver[t].waits[i] = 2 ^ i
               /\ saver[t].surfaced

C21_IsDownloadedChecksTheFile ==
    [][(hist.asked = 0 /\ hist'.asked # 0)
          => LET x == hist'.asked
             IN  /\ hist'.result
                     => x \in hist.downloaded_ids /\ OnDisk(hist.place[x])
                 /\ (x \in hist.downloaded_ids /\ ~OnDisk(hist.place[x]))
                     => /\ ~hist'.result
                        /\ x \notin hist'.downloaded_ids
                        /\ x \notin hist'.saved]_vars

\* is_downloaded has just removed an id whose file is gone, and the saved
\* history no longer has it
C21_Witness ==
    /\ hist.asked # 0
    /\ ~hist.result
    /\ hist.place[hist.asked] = "none"
    /\ hist.downloaded_ids # {}
    /\ hist.asked \notin hist.downloaded_ids
    /\ hist.saved = hist.downloaded_ids

\* C22: every (message, node) pair in the queue has
\* node.download_status[message.id] = Downloading, whichever path submitted
\* it and whatever the workers have finished meanwhile
C22_QueuedIsDownloading ==
    \A i \in DOMAIN task_queue :
        task_nodes[task_queue[i].node].download_status[task_queue[i].message] = "Downloading"

\* a message waits in the queue on a node of which a worker has finished
\* another message
C22_Witness ==
    \E i \in DOMAIN task_queue :
        \E x \in MsgIds :
            task_nodes[task_queue[i].node].download_status[x] \in {"SuccessDownload", "FailedDownload"}

\* the callback of the transfer is entered in this step
Entered == cb.pc = "idle" /\ cb'.pc # "idle"

\* C23: a progress callback entered while node.is_stop_transmission is set
\* stops the transmission and returns at once; the message's progress entry
\* and the node's byte counter stay as they were
C23_StoppedNodeRecordsNothing ==
    [][(Entered /\ cb.is_stop_transmission)
          => /\ cb'.pc = "returned"
             /\ cb'.ended = "stopped"
             /\ cb'.entry = cb.entry
             /\ cb'.total_download_byte = cb.total_download_byte]_vars

\* a second callback of the transfer met the flag at its entry and ended in
\* stop_transmission, the entry of the first chunk untouched
C23_Witness ==
    /\ cb.pc = "returned"
    /\ cb.stop_at_entry
    /\ cb.ended = "stopped"
    /\ cb.down_byte = 2
    /\ cb.entry = 1

\* the callback has been held in the pause loop
Paused(c) == c.pc = "body" \/ (c.pc = "loop" /\ c.elapsed > 0)

\* C24: a progress callback that leaves the pause loop after the run state
\* has become Cancelled sets node.is_stop_transmission, stops the
\* transmission and records no progress
C24_CancelledWhilePausedStops ==
    [][(Paused(cb) /\ cb'.pc = "returned" /\ download_state = "Cancelled")
          => /\ cb'.is_stop_transmission
             /\ cb'.ended = "stopped"
             /\ cb'.entry = cb.entry
             /\ cb'.total_download_byte = cb.total_download_byte]_vars

notTaskNode == <<coreVars, unit1Vars, hist, queueVars, cb, finalizer, zip_sub, fp, task_ids, sf, auth, zw, web>>

\* TaskNode.stop_transmission, called by DownloadBot.stop_task for the nodes
\* of the task the user stops
StopTransmission ==
    /\ ~task_node.is_stop_transmission
    /\ task_node' = [task_node EXCEPT !.is_stop_transmission = TRUE]
    /\ UNCHANGED notTaskNode

\* worker, lines 699-716: an item of the node is taken; it is dropped when
\* the run is cancelled (marking the node) or when the node is stopped, else
\* download_task calls download_media for it
WorkerItem(is_zip, media_size, existing, has_media, can_download, meta_ok) ==
    /\ dm.pc = "idle"
    /\ IF download_state = "Cancelled"
       THEN /\ task_node.dropped < MaxDropped
            /\ task_node' = [is_stop_transmission |-> TRUE, dropped |-> task_node.dropped + 1]
            /\ UNCHANGED notTaskNode
       ELSE IF task_node.is_stop_transmission
       THEN /\ task_node.dropped < MaxDropped
            /\ task_node' = [task_node EXCEPT !.dropped = @ + 1]
            /\ UNCHANGED notTaskNode
       ELSE DownloadMediaBegin(is_zip, media_size, existing, has_media, can_download, meta_ok)

StopNext ==
    \/ \E is_zip, has_media, can_download, meta_ok \in BOOLEAN :
           \E media_size \in Sizes, existing \in FileStates :
               WorkerItem(is_zip, media_size, existing, has_media, can_download, meta_ok)
    \/ \E end \in AttemptEnds, download_size \in Sizes, move_ok \in BOOLEAN :
           DownloadMediaAttempt(end, download_size, move_ok)
    \/ DownloadMediaRetry
    \/ StopTransmission
    \/ \E ids \in SUBSET MsgIds : AddDownloadTasks(ids)
    \/ CancelDownload

SpecStop == Init /\ [][StopNext]_vars

\* C26: no round of download_media calls client.download_media for a
\* message of a node whose is_stop_transmission is set
C26_NoAttemptOnStoppedNode ==
    [][dm'.calls > dm.calls => ~task_node.is_stop_transmission]_vars

\* C27: download_media does not end with a FloodWait as the answer to its
\* last attempt: the sleep a FloodWait asks for is followed by another attempt
C27_FloodWaitIsRetried ==
    ~(/\ dm.pc = "returned"
      /\ dm.ends # <<>>
      /\ dm.calls = Len(dm.ends)
      /\ dm.ends[Len(dm.ends)] = "FloodWait")

\* ------------------------ the custom-download finalizer and its TaskNode

\* what the finalizer of a custom download does not touch
notFinalizer == <<coreVars, unit1Vars, hist, queueVars, cb, task_node, zip_sub, fp, task_ids, sf, auth, zw, web>>

\* the statuses the wait loop counts as completed, lines 441
CompletedStatuses == {"SuccessDownload", "FailedDownload", "SkipDownload"}

\* the messages of download_nodes
Submitted(f) == {x \in MsgIds : f.download_status[x] # "none"}

\* all_completed of one round of the wait loop, lines 424-492
AllCompleted(f) == \A x \in Submitted(f) : f.download_status[x] \in CompletedStatuses

\* the wait loop is left: every download has completed, or the sleep of this
\* round brings waited_time to max_wait_time
WaitIsOver(f) == AllCompleted(f) \/ f.waited_time + check_interval >= max_wait_time

\* run_custom_download with a TaskNode, up to the start of
\* update_download_status: the node is handed over running, _process_message
\* has put every message found on the queue with the status Downloading
CustomDownloadStart(ids) ==
    /\ finalizer.phase = "idle"
    /\ ids # {}
    /\ finalizer' = [NoFinalizer EXCEPT
           !.phase = "wait", !.is_running = TRUE,
           !.download_status = [x \in MsgIds |-> IF x \in ids THEN "Downloading" ELSE "none"]]
    /\ UNCHANGED notFinalizer

\* download_task, line 367: a worker stores the outcome of a queued message
DownloadTaskEnds(x, status) ==
    /\ finalizer.download_status[x] = "Downloading"
    /\ status \in CompletedStatuses
    /\ finalizer' = [finalizer EXCEPT !.download_status[x] = status]
    /\ UNCHANGED notFinalizer

\* update_download_status, one round of `while waited_time < max_wait_time`,
\* lines 423-555: the completed downloads are counted once for the TaskNode;
\* the loop is left when every download has completed, else the round sleeps
\* check_interval seconds. After the loop, lines 556-654: every message is
\* marked and the TaskNode's is_running is set to False
UpdateDownloadStatusRound ==
    /\ finalizer.phase = "wait"
    /\ LET processed == {x \in Submitted(finalizer) :
                             finalizer.download_status[x] \in CompletedStatuses}
       IN  finalizer' =
               IF WaitIsOver(finalizer)
               THEN [finalizer EXCEPT !.phase = "done", !.processed = processed,
                                      !.marked = Submitted(finalizer), !.is_running = FALSE,
                                      !.waited_time = IF AllCompleted(finalizer) THEN @
                                                      ELSE @ + check_interval]
               ELSE [finalizer EXCEPT !.processed = processed,
                                      !.waited_time = @ + check_interval]
    /\ UNCHANGED notFinalizer

FinalizerNext ==
    \/ \E ids \in SUBSET MsgIds : CustomDownloadStart(ids)
    \/ \E x \in MsgIds, status \in CompletedStatuses : DownloadTaskEnds(x, status)
    \/ UpdateDownloadStatusRound

SpecFinalizer == Init /\ [][FinalizerNext]_vars

\* C28: the TaskNode of a job is running from its first enqueue on and
\* is_running is false only when every message submitted for the job has
\* reached a terminal outcome, never while one is still Downloading
C28_RunningUntilAllTerminal ==
    (finalizer.phase # "idle" /\ ~finalizer.is_running)
        => \A x \in MsgIds : finalizer.download_status[x] # "Downloading"

\* ------------------- a ZIP submission task and cleanup in the web thread

\* what the submission task of a ZIP manager does not touch
notSubmission == <<coreVars, unit1Vars, hist, queueVars, cb, task_node, finalizer, fp, task_ids, sf, auth, zw, web>>

\* the message_ids of a request: any ids in any order
MessageIdLists == UNION {[1..n -> MsgIds] : n \in 1..MaxRequested}

\* the submission loop after the message at pos: the next await of
\* get_messages, or the end of the task
Advanced(z) ==
    [z EXCEPT !.pos = @ + 1,
              !.pc = IF z.pos >= Len(z.message_ids) THEN "ended" ELSE "fetch"]

\* start_downloads_via_worker_pool up to its first await, lines 440-481: the
\* task returns when the manager is already cancelled
SubmissionStart(ids) ==
    /\ zip_sub.pc = "idle"
    /\ ids \in MessageIdLists
    /\ zip_sub' = IF zip_sub.is_cancelled
                  THEN [zip_sub EXCEPT !.pc = "ended", !.message_ids = ids]
                  ELSE [zip_sub EXCEPT !.pc = "fetch", !.message_ids = ids]
    /\ UNCHANGED notSubmission

\* the task wakes from `await client.get_messages`, line 482: a cancelled
\* task gets CancelledError there, which no handler of the function catches;
\* a message without media or an exception is recorded as failed
GetMessagesReturns(fetched) ==
    /\ zip_sub.pc = "fetch"
    /\ fetched \in Fetched
    /\ zip_sub' = IF zip_sub.must_cancel THEN [zip_sub EXCEPT !.pc = "ended"]
                  ELSE IF fetched = "media" THEN [zip_sub EXCEPT !.pc = "build"]
                  ELSE Advanced([zip_sub EXCEPT !.failed_downloads =
                                     Append(@, zip_sub.message_ids[zip_sub.pos])])
    /\ UNCHANGED notSubmission

\* lines 485-494: the node of the message is built and put on the queue; the
\* queue has no size limit, so the put does not suspend the task
QueuePut ==
    /\ zip_sub.pc = "build"
    /\ zip_sub' = Advanced([zip_sub EXCEPT !.put = Append(@, zip_sub.message_ids[zip_sub.pos])])
    /\ UNCHANGED notSubmission

\* cleanup_stale_session in a thread of the web server, lines 276-278: the
\* background task is cancelled when there is one that is not done
CleanupCancelsTask ==
    /\ zip_sub.cleanup = "none"
    /\ zip_sub' = [zip_sub EXCEPT !.cleanup = "task",
                                  !.must_cancel = zip_sub.pc \in {"fetch", "build"}]
    /\ UNCHANGED notSubmission

\* cleanup_stale_session, lines 284-285: the manager is marked cancelled
CleanupSetsCancelled ==
    /\ zip_sub.cleanup = "task"
    /\ zip_sub' = [zip_sub EXCEPT !.cleanup = "done", !.is_cancelled = TRUE]
    /\ UNCHANGED notSubmission

SubmissionNext ==
    \/ \E ids \in MessageIdLists : SubmissionStart(ids)
    \/ \E fetched \in Fetched : GetMessagesReturns(fetched)
    \/ QueuePut
    \/ CleanupCancelsTask
    \/ CleanupSetsCancelled

SpecSubmission == Init /\ [][SubmissionNext]_vars

\* C29: no message of a ZIP manager is put on the worker queue after the
\* manager's is_cancelled has been set, wherever in its submission loop the
\* manager is when the flag is set
C29_NoPutAfterCancelled ==
    [][Len(zip_sub'.put) > Len(zip_sub.put) => ~zip_sub.is_cancelled]_vars

\* the transfer of worker w has written a chunk of its message to the temp
\* path of _get_media_meta, which names the chat and the message only
WritesTempOf(w, x) ==
    /\ worker[w].pc \in {"download", "paused"}
    /\ worker[w].item.message = x
    /\ worker[w].down_byte > 0

\* C30: when two ZIP jobs submit the same message, its file is not written
\* by both: no two workers are writing the temp path of that message at the
\* same time for nodes of different jobs
C30_OverlapWrittenOnce ==
    \A w1, w2 \in Workers : \A x \in MsgIds :
        (w1 # w2 /\ WritesTempOf(w1, x) /\ WritesTempOf(w2, x))
            => nodes[worker[w1].item.node].zip_download_manager
                   = nodes[worker[w2].item.node].zip_download_manager

\* --------------------- one message's entry of download_stat._download_result

notProgress == <<coreVars, unit1Vars, hist, queueVars, cb, task_node, finalizer, zip_sub, task_ids, sf, auth, zw, web>>

\* the sizes of the media (MiB) and the byte counts a transfer reports
TotalSizes == {25, 100}
DownBytes == {1, 25, 75, 100}

\* int() of a quotient: towards zero
IntDiv(a, b) == IF a >= 0 THEN a \div b ELSE -((-a) \div b)

Max(a, b) == IF a >= b THEN a ELSE b

\* download_stat.update_download_status, lines 100-137: an entry that exists
\* gets the new down_byte and, after a second, a new speed; its total_size
\* is left as it is
EntryUpdated(e, down_byte, cur_time) ==
    LET each == e.each_second_total_download + (down_byte - e.down_byte)
        later == cur_time - e.end_time >= 1
    IN  [e EXCEPT !.down_byte = down_byte,
                  !.end_time = IF later THEN cur_time ELSE @,
                  !.download_speed =
                      Max(IF later THEN IntDiv(each, cur_time - e.end_time) ELSE @, 0),
                  !.each_second_total_download = IF later THEN 0 ELSE each]

\* lines 125-136: the first callback of a message without entry creates it
EntryCreated(down_byte, total_size, start_time, cur_time) ==
    [exists |-> TRUE, down_byte |-> down_byte, total_size |-> total_size,
     start_time |-> start_time, end_time |-> cur_time,
     download_speed |-> IntDiv(down_byte, cur_time - start_time),
     each_second_total_download |-> down_byte, by_finalizer |-> FALSE]

\* custom_download.py, lines 402-417: the finalizer's entry for a message
\* that has none, with the assumed size
EntryEstimated(cur_time) ==
    [exists |-> TRUE, down_byte |-> 0, total_size |-> estimated_size,
     start_time |-> cur_time, end_time |-> cur_time, download_speed |-> 0,
     each_second_total_download |-> 0, by_finalizer |-> TRUE]

\* lines 447-468: the entry of a completed download is set to 100 %
EntryCompleted(e, cur_time) ==
    [e EXCEPT !.down_byte = e.total_size,
              !.end_time = cur_time,
              !.download_speed = IntDiv(e.total_size, Max(1, cur_time - e.start_time))]

\* lines 497-527: the simulated progress of a download in progress,
\* int(total_size * min(0.9, elapsed / 30.0)), written when it is more than
\* the entry holds
EntrySimulated(e, cur_time) ==
    LET elapsed == cur_time - e.start_time
        new_downloaded == (e.total_size * (IF elapsed >= 27 THEN 27 ELSE elapsed)) \div 30
    IN  IF new_downloaded > e.down_byte
        THEN [e EXCEPT !.down_byte = new_downloaded,
                       !.end_time = cur_time,
                       !.download_speed = IF elapsed > 0 THEN IntDiv(new_downloaded, elapsed)
                                          ELSE @]
        ELSE e

\* download_media starts the transfer of the message: task_start_time
TransferBegins(total_size) ==
    /\ fp.transfer = "queued"
    /\ total_size \in TotalSizes
    /\ fp' = [fp EXCEPT !.transfer = "running", !.total_size = total_size,
                        !.task_start_time = fp.now]
    /\ UNCHANGED notProgress

\* update_download_status is called with the bytes received so far
ProgressCallback(down_byte) ==
    /\ fp.transfer = "running"
    /\ down_byte \in DownBytes
    /\ fp.reported < down_byte
    /\ down_byte <= fp.total_size
    /\ fp.now > fp.task_start_time
    /\ fp' = [fp EXCEPT
           !.reported = down_byte,
           !.entry = IF fp.entry.exists THEN EntryUpdated(fp.entry, down_byte, fp.now)
                     ELSE EntryCreated(down_byte, fp.total_size, fp.task_start_time, fp.now)]
    /\ UNCHANGED notProgress

\* download_task stores the outcome of the message
TransferEnds ==
    /\ fp.transfer = "running"
    /\ fp' = [fp EXCEPT !.transfer = "ended"]
    /\ UNCHANGED notProgress

\* CustomDownloadManager.update_download_status before its wait loop
FinalizerBegins ==
    /\ fp.fin = "idle"
    /\ fp' = [fp EXCEPT !.fin = "wait", !.next_round = fp.now,
                        !.entry = IF fp.entry.exists THEN @ ELSE EntryEstimated(fp.now)]
    /\ UNCHANGED notProgress

\* one round of the wait loop, every check_interval seconds; after the
\* round that finds the download completed, lines 656-675 remove the entry
\* the finalizer created
FinalizerRound ==
    /\ fp.fin = "wait"
    /\ fp.now >= fp.next_round
    /\ fp' = IF fp.transfer = "ended"
             THEN [fp EXCEPT !.fin = "done", !.processed = TRUE,
                             !.entry = IF fp.entry.by_finalizer THEN NoEntry
                                       ELSE IF fp.entry.exists
                                       THEN EntryCompleted(fp.entry, fp.now) ELSE @]
             ELSE [fp EXCEPT !.next_round = fp.now + check_interval,
                             !.entry = IF fp.entry.exists
                                       THEN EntrySimulated(fp.entry, fp.now) ELSE @]
    /\ UNCHANGED notProgress

\* a second passes
ClockTick ==
    /\ fp.now < MaxClock
    /\ fp' = [fp EXCEPT !.now = @ + 1]
    /\ UNCHANGED notProgress

ProgressNext ==
    \/ \E total_size \in TotalSizes : TransferBegins(total_size)
    \/ \E down_byte \in DownBytes : ProgressCallback(down_byte)
    \/ TransferEnds
    \/ FinalizerBegins
    \/ FinalizerRound
    \/ ClockTick

SpecProgress == Init /\ [][ProgressNext]_vars

\* C31: every progress entry has 0 <= down_byte <= total_size and
\* download_speed >= 0, also an entry the finalizer created with the assumed
\* size and a progress callback updated later
C31_EntryWithinTotal ==
    fp.entry.exists
        => /\ 0 <= fp.entry.down_byte
           /\ fp.entry.down_byte <= fp.entry.total_size
           /\ fp.entry.download_speed >= 0

\* C32: from one update of an entry to the next, down_byte / total_size does
\* not decrease, whether the finalizer or a progress callback writes
C32_PercentageNeverDecreases ==
    [][(fp.entry.exists /\ fp'.entry.exists)
          => fp'.entry.down_byte * fp.entry.total_size
                 >= fp.entry.down_byte * fp'.entry.total_size]_vars

\* --------------------------------------------- TaskNode objects and task ids

notTaskIds == <<coreVars, unit1Vars, hist, queueVars, cb, task_node, finalizer, zip_sub, fp, sf, auth, zw, web>>

\* TaskNode(...) called without task_id: the value the constructor's
\* parameter defaults to, the same for every such call
DefaultTaskId == 0

\* a TaskNode is constructed with this id
Created(i, id, by) == [i EXCEPT !.created = Append(@, [task_id |-> id, by |-> by])]

\* TaskNode(..., task_id=_bot.gen_task_id()): the bot's handlers and the
\* notification path of add_download_tasks, all on the event loop;
\* gen_task_id increments the counter and returns it
NodeWithGenTaskId(by) ==
    /\ Len(task_ids.created) < MaxCreated
    /\ by \in {"bot", "add_download_tasks"}
    /\ task_ids' = Created([task_ids EXCEPT !.task_id = @ + 1], task_ids.task_id + 1, by)
    /\ UNCHANGED notTaskIds

\* TaskNode(chat_id=...) of _process_message, of the ZIP submission loop and
\* of download_all_chat: no task_id is passed
NodeWithoutTaskId(by) ==
    /\ Len(task_ids.created) < MaxCreated
    /\ by \in {"_process_message", "start_downloads_via_worker_pool", "download_all_chat"}
    /\ task_ids' = Created(task_ids, DefaultTaskId, by)
    /\ UNCHANGED notTaskIds

TaskIdsNext ==
    \/ \E by \in {"bot", "add_download_tasks"} : NodeWithGenTaskId(by)
    \/ \E by \in {"_process_message", "start_downloads_via_worker_pool", "download_all_chat"} :
           NodeWithoutTaskId(by)

SpecTaskIds == Init /\ [][TaskIdsNext]_vars

\* C33: no two TaskNode objects created so far have the same task_id
C33_TaskIdsDiffer ==
    \A i, j \in 1..Len(task_ids.created) :
        i # j => task_ids.created[i].task_id # task_ids.created[j].task_id

\* ------------------------------------------ the session files on disk

notSessionFiles == <<coreVars, unit1Vars, hist, queueVars, cb, task_node, finalizer, zip_sub, fp, task_ids, auth, zw, web>>

SessionUsers == 1..MaxUsers

\* open(path, 'w'): the file is created or cut to length 0
Truncated == [exists |-> TRUE, sessions |-> {}, complete |-> FALSE]

\* the buffered JSON is written from offset 0 when the file is closed: what
\* the file holds beyond the length of the new text stays
Written(old, data) ==
    [exists |-> TRUE, sessions |-> data,
     complete |-> ~(old.exists /\ Cardinality(old.sessions) > Cardinality(data))]

\* TelegramAuthManager._save_sessions, lines 725-735: user_sessions has been
\* changed and sessions_file is opened for writing
SaveSessionsOpens(t, data) ==
    /\ ~sf.crashed
    /\ sf.save[t].pc = "idle"
    /\ data \in SUBSET SessionUsers
    /\ sf' = [sf EXCEPT !.user_sessions = data,
                        !.sessions_file = Truncated,
                        !.save[t] = [pc |-> "open", store |-> "user_sessions", data |-> data,
                                     fd |-> "sessions_file"]]
    /\ UNCHANGED notSessionFiles

\* SessionStorage._save_sessions, lines 34-44: sessions has been changed and
\* the temp file "<storage_file>.tmp" is opened for writing
StorageSaveOpens(t, data) ==
    /\ ~sf.crashed
    /\ sf.save[t].pc = "idle"
    /\ data \in SUBSET SessionUsers
    /\ sf' = [sf EXCEPT !.sessions = data,
                        !.temp_file = Truncated,
                        !.save[t] = [pc |-> "open", store |-> "sessions", data |-> data,
                                     fd |-> "temp_file"]]
    /\ UNCHANGED notSessionFiles

\* json.dump and the end of the `with` block: the text goes to the file the
\* descriptor is open on, whatever path names it now
SaveCloses(t) ==
    /\ ~sf.crashed
    /\ sf.save[t].pc = "open"
    /\ LET sv == sf.save[t]
           after == IF sv.store = "user_sessions"
                    THEN [sv EXCEPT !.pc = "idle", !.fd = "none"]
                    ELSE [sv EXCEPT !.pc = "rename", !.fd = "none"]
       IN  sf' = CASE sv.fd = "sessions_file" ->
                        [sf EXCEPT !.sessions_file = Written(@, sv.data), !.save[t] = after]
                   [] sv.fd = "temp_file" ->
                        [sf EXCEPT !.temp_file = Written(@, sv.data), !.save[t] = after]
                   [] sv.fd = "storage_file" ->
                        [sf EXCEPT !.storage_file = Written(@, sv.data), !.save[t] = after]
                   [] OTHER -> [sf EXCEPT !.save[t] = after]
    /\ UNCHANGED notSessionFiles

\* SessionStorage._save_sessions, line 45: os.rename(temp_file, storage_file).
\* A descriptor open on the temp file stays open on the renamed file, one
\* open on the replaced file loses its path; without a temp file the rename
\* raises and the save ends in the handler of line 47
StorageSaveRenames(t) ==
    /\ ~sf.crashed
    /\ sf.save[t].pc = "rename"
    /\ sf' = IF sf.temp_file.exists
             THEN [sf EXCEPT
                      !.storage_file = sf.temp_file,
                      !.temp_file = Absent,
                      !.save = [u \in Threads |->
                                   IF u = t THEN [sf.save[u] EXCEPT !.pc = "idle"]
                                   ELSE IF sf.save[u].fd = "temp_file"
                                   THEN [sf.save[u] EXCEPT !.fd = "storage_file"]
                                   ELSE IF sf.save[u].fd = "storage_file"
                                   THEN [sf.save[u] EXCEPT !.fd = "gone"]
                                   ELSE sf.save[u]]]
             ELSE [sf EXCEPT !.save[t].pc = "idle"]
    /\ UNCHANGED notSessionFiles

\* the process is killed: what is on disk stays as it is
Crash ==
    /\ ~sf.crashed
    /\ sf' = [sf EXCEPT !.crashed = TRUE]
    /\ UNCHANGED notSessionFiles

SessionFilesNext ==
    \/ \E t \in Threads, data \in SUBSET SessionUsers : SaveSessionsOpens(t, data)
    \/ \E t \in Threads, data \in SUBSET SessionUsers : StorageSaveOpens(t, data)
    \/ \E t \in Threads : SaveCloses(t)
    \/ \E t \in Threads : StorageSaveRenames(t)
    \/ Crash

SpecSessionFiles == Init /\ [][SessionFilesNext]_vars

\* C34: at every instant the user-session file on disk holds the complete
\* sessions of some completed save, also in the middle of a save, after a
\* crash and with two saves overlapping
C34_SessionFileAlwaysComplete ==
    /\ sf.sessions_file.exists /\ sf.sessions_file.complete
    /\ sf.storage_file.exists /\ sf.storage_file.complete

\* ------------------------------------------ stored user sessions

notAuth == <<coreVars, unit1Vars, hist, queueVars, cb, task_node, finalizer, zip_sub, fp, task_ids, sf, zw, web>>

\* complete_auth, lines 136-143, and the QR logins: the exported blob is kept
\* in memory, saved, and the client is active
CompleteAuth(u) ==
    /\ u \notin auth.user_sessions \/ u \in auth.unregistered
    /\ auth' = [auth EXCEPT !.user_sessions = @ \cup {u},
                            !.stored = auth.user_sessions \cup {u},
                            !.active_clients = @ \cup {u},
                            !.unregistered = @ \ {u},
                            !.met_unregistered = @ \ {u}]
    /\ UNCHANGED notAuth

\* Telegram ends the authorisation of a stored blob; the connection made
\* with it is closed
AuthKeyRevoked(u) ==
    /\ u \in auth.stored
    /\ u \notin auth.unregistered
    /\ auth' = [auth EXCEPT !.unregistered = @ \cup {u},
                            !.active_clients = @ \ {u}]
    /\ UNCHANGED notAuth

\* get_user_client, lines 176-221
GetUserClient(u) ==
    /\ auth' =
         IF u \in auth.active_clients
         THEN [auth EXCEPT !.returned = [user_id |-> u, client |-> TRUE]]
         ELSE IF u \notin auth.user_sessions
         THEN [auth EXCEPT !.returned = [user_id |-> u, client |-> FALSE]]
         ELSE IF u \in auth.unregistered
         THEN \* except AuthKeyUnregistered: user_sessions.pop(user_id), return None
              [auth EXCEPT !.user_sessions = @ \ {u},
                           !.met_unregistered = @ \cup {u},
                           !.returned = [user_id |-> u, client |-> FALSE]]
         ELSE [auth EXCEPT !.active_clients = @ \cup {u},
                           !.returned = [user_id |-> u, client |-> TRUE]]
    /\ auth' # auth
    /\ UNCHANGED notAuth

\* the process starts again: __init__, lines 26-31, and _load_sessions,
\* lines 712-723
ProcessRestarts ==
    /\ auth' = [auth EXCEPT !.user_sessions = auth.stored,
                            !.active_clients = {},
                            !.returned = [user_id |-> 0, client |-> FALSE]]
    /\ auth' # auth
    /\ UNCHANGED notAuth

AuthNext ==
    \/ \E u \in SessionUsers : CompleteAuth(u)
    \/ \E u \in SessionUsers : AuthKeyRevoked(u)
    \/ \E u \in SessionUsers : GetUserClient(u)
    \/ ProcessRestarts

SpecAuth == Init /\ [][AuthNext]_vars

\* C35: once get_user_client has met an unregistered auth key for a user, it
\* has returned no client and the user's blob is no longer among the stored
\* sessions, so that a restart does not load it again
C35_InvalidBlobRemovedFromStore ==
    \A u \in auth.met_unregistered :
        /\ u \notin auth.stored
        /\ u \notin auth.user_sessions

\* ------------------------------------------ the worker and the ZIP callbacks

notZipItems == <<coreVars, unit1Vars, hist, queueVars, cb, task_node, finalizer, zip_sub, fp, task_ids, sf, auth, web>>

\* what download_task ends with for a ZIP item: a status with a file path, a
\* status with a path os.path.getsize cannot stat, SkipDownload without a
\* path, FailedDownload, or an exception
ItemOutcomes ==
    {"SuccessDownload", "SkipDownload", "StatError", "SkipNoFile", "FailedDownload", "Exception"}

\* worker, lines 719-745: the calls of on_file_downloaded and of on_file_failed
\* one outcome leads to; on_file_downloaded raises after its append when
\* update_download_progress raises, and line 730 then calls on_file_failed
DownloadedCalls(outcome) ==
    IF outcome \in {"SuccessDownload", "SkipDownload"} THEN 1 ELSE 0

FailedCalls(outcome, raises) ==
    IF outcome \in {"SuccessDownload", "SkipDownload"}
    THEN IF raises THEN 1 ELSE 0
    ELSE 1

\* start_downloads_via_worker_pool, lines 485-491: a message of the job is
\* put on the queue with its own node
ZipItemPut(m) ==
    /\ m \notin zw.put
    /\ zw' = [zw EXCEPT !.queue = Append(@, m), !.put = @ \cup {m}]
    /\ UNCHANGED notZipItems

\* set_download_state(Cancelled) by a cancel request (the messages queued at
\* that moment are noted), and Downloading by the add_tasks of the next session
ZipStateSet(c) ==
    /\ zw.cancelled # c
    /\ zw' = [zw EXCEPT !.cancelled = c,
                        !.queued_at_cancel =
                            IF c THEN @ \cup {zw.queue[i] : i \in DOMAIN zw.queue} ELSE @]
    /\ UNCHANGED notZipItems

\* TaskNode.stop_transmission on the node of a queued message
ZipNodeStopped(m) ==
    /\ m \in zw.put
    /\ m \notin zw.handled
    /\ m \notin zw.is_stop_transmission
    /\ zw' = [zw EXCEPT !.is_stop_transmission = @ \cup {m}]
    /\ UNCHANGED notZipItems

\* worker, lines 698-745: one pass of the loop body for the item at the head
\* of the queue
WorkerLoopBody(outcome, raises) ==
    /\ zw.queue # <<>>
    /\ outcome \in ItemOutcomes
    /\ raises \in BOOLEAN
    /\ raises => outcome \in {"SuccessDownload", "SkipDownload"}
    /\ LET m == Head(zw.queue)
           popped == [zw EXCEPT !.queue = Tail(@), !.handled = @ \cup {m}]
       IN  zw' = IF zw.cancelled
                 THEN [popped EXCEPT !.is_stop_transmission = @ \cup {m}]
                 ELSE IF m \in zw.is_stop_transmission
                 THEN popped
                 ELSE [popped EXCEPT
                          !.download_task = @ \cup {m},
                          !.on_file_downloaded[m] = @ + DownloadedCalls(outcome),
                          !.on_file_failed[m] = @ + FailedCalls(outcome, raises)]
    /\ UNCHANGED notZipItems

ZipItemsNext ==
    \/ \E m \in MsgIds : ZipItemPut(m)
    \/ \E c \in BOOLEAN : ZipStateSet(c)
    \/ \E m \in MsgIds : ZipNodeStopped(m)
    \/ \E outcome \in ItemOutcomes, raises \in BOOLEAN : WorkerLoopBody(outcome, raises)

SpecZipItems == Init /\ [][ZipItemsNext]_vars

\* C36: for every message of a ZIP job the worker has popped from the queue,
\* exactly one of on_file_downloaded and on_file_failed has been called, and
\* exactly once: on success, skip, failure, an exception inside a callback,
\* and when the item is dropped because of the cancel state or the stop flag
C36_ExactlyOneCallbackOnce ==
    \A m \in zw.handled : zw.on_file_downloaded[m] + zw.on_file_failed[m] = 1

\* ------------------------------------------ the two lists of the history

\* C37: after any sequence of mark_downloaded, mark_failed, clearing of
\* failed records and finalizer runs, no message is at once in downloaded_ids
\* and in failed_ids
C37_DownloadedAndFailedDisjoint ==
    custom.downloaded_ids \cap custom.failed_ids = {}


\* C38: once the run state has been set to Cancelled, no item that was on the
\* queue at that moment is handed to download_task afterwards, also when a
\* new session sets the state back to Downloading while the item is queued
C38_NoDownloadOfItemsQueuedAtCancel ==
    zw.queued_at_cancel \cap zw.download_task = {}

\* ------------------------------------------ add_tasks and the task it starts

notWeb == <<coreVars, unit1Vars, hist, queueVars, cb, task_node, finalizer, zip_sub, fp, task_ids, sf, auth, zw>>

\* a 409 test that does not look at force_restart
RejectedThoughForced(force_restart, active) == active

\* add_download_tasks, lines 56-59: the 409 test
Rejected(force_restart, active) == ~force_restart /\ active

\* add_download_tasks, lines 41-231: one request with a chat id and a list of
\* message ids. bot tells whether the session has a user id and the
\* application a download bot, has_client whether the authentication manager
\* has an active client
AddTasks(ids, force_restart, bot, has_client) ==
    /\ ids # {}
    /\ Len(web.tasks) < MaxRuns
    /\ LET new_ids == ids \ web.target_ids
           rejected == Rejected(force_restart, web.active)
           triggered == ~rejected /\ new_ids # {} /\ has_client
           after == IF rejected THEN web
                    ELSE IF ~triggered
                    THEN [web EXCEPT !.target_ids = @ \cup new_ids]
                    ELSE [web EXCEPT
                             !.target_ids = @ \cup new_ids,
                             !.run_state = "Downloading",
                             !.active = TRUE,
                             !.tasks = Append(@, [path |-> IF bot THEN "bot" ELSE "plain",
                                                  new_ids |-> new_ids,
                                                  pc |-> "scheduled"])]
       IN  web' = [after EXCEPT !.request =
                      [ids |-> ids, force_restart |-> force_restart,
                       was_active |-> web.active,
                       target_before |-> web.target_ids, state_before |-> web.run_state,
                       target_after |-> after.target_ids, state_after |-> after.run_state,
                       code |-> IF rejected THEN 409
                                ELSE IF new_ids # {} /\ ~has_client THEN 401 ELSE 200,
                       download_triggered |-> triggered]]
    /\ UNCHANGED notWeb

\* setup_and_start_download, lines 159-191: the notice is sent, the node made,
\* and run_custom_download_for_selected is called with task_node=, a keyword
\* its signature (custom_download.py line 752) does not have: the TypeError is
\* logged at line 191 and the coroutine ends
SetupAndStartDownload(i) ==
    /\ i \in DOMAIN web.tasks
    /\ web.tasks[i].pc = "scheduled"
    /\ web.tasks[i].path = "bot"
    /\ web' = [web EXCEPT !.tasks[i].pc = "ended"]
    /\ UNCHANGED notWeb

\* run_custom_download_for_selected scheduled directly, lines 199-215, up to
\* the end of download_custom_messages: failed records of the ids are
\* cleared, the found messages are put on the queue, the others marked failed
RunForSelected(i, found) ==
    /\ i \in DOMAIN web.tasks
    /\ web.tasks[i].pc = "scheduled"
    /\ web.tasks[i].path = "plain"
    /\ found \subseteq web.tasks[i].new_ids
    /\ web' = [web EXCEPT !.tasks[i].pc = "ended",
                          !.submitted = @ \cup found,
                          !.failed_ids = (@ \ web.tasks[i].new_ids)
                                            \cup (web.tasks[i].new_ids \ found)]
    /\ UNCHANGED notWeb

\* update_download_progress(total, total) at the end of a run: the progress
\* is no longer active and the state is Completed unless it is Cancelled
ProgressCompletes ==
    /\ web.active
    /\ \E i \in DOMAIN web.tasks : web.tasks[i].path = "plain" /\ web.tasks[i].pc = "ended"
    /\ web' = [web EXCEPT !.active = FALSE,
                          !.run_state = IF @ = "Cancelled" THEN @ ELSE "Completed"]
    /\ UNCHANGED notWeb

\* cleanup_stale_session, lines 246-303: progress reset, state Idle
WebCleanup ==
    /\ web.active \/ web.run_state # "Idle"
    /\ web' = [web EXCEPT !.active = FALSE, !.run_state = "Idle"]
    /\ UNCHANGED notWeb

WebNext ==
    \/ \E ids \in SUBSET MsgIds, force_restart, bot, has_client \in BOOLEAN :
          AddTasks(ids, force_restart, bot, has_client)
    \/ \E i \in 1..MaxRuns : SetupAndStartDownload(i)
    \/ \E i \in 1..MaxRuns, found \in SUBSET MsgIds : RunForSelected(i, found)
    \/ ProgressCompletes
    \/ WebCleanup

SpecWeb == Init /\ [][WebNext]_vars

C40_TriggeredIdsSubmittedOrFailed ==
    \A i \in DOMAIN web.tasks :
        web.tasks[i].pc = "ended" =>
            web.tasks[i].new_ids \subseteq web.submitted \cup web.failed_ids

====
